---- MODULE Spec2Model ----
(***************************************************************************)
(* Model of knyst's command bus: the Commands facade                       *)
(* (MultiThreadedKnystCommands), the thread-local local-graph stack, the   *)
(* Controller's run loop with apply_command, and the beat callbacks.       *)
(* The Graph itself is an external collaborator and is modelled by its     *)
(* interface only.                                                         *)
(***************************************************************************)
EXTENDS Integers, Sequences, FiniteSets, TLC

\* ------------------------------------------------------------------ bounds
MaxOps == 4
MaxBundleOps == 5
MaxScope == 2
MaxTime == 1
MaxValue == 2
MaxMaxCommands == 2
MaxDepth == 1
MaxCallbackOps == 2
MaxBeat == 2
MaxDelta == 2
MaxRing == 1
MaxResourceOps == 3
MaxOfflineOps == 5
MaxRoutingOps == 4
MaxChangeOps == 4
MaxNesting == 2
MaxEmitted == 2
MaxDeferOps == 3
MaxFired == 2
MaxSendOps == 2
MaxMisuseOps == 4
MaxMultiple == 2
MaxCurrent == 9
CounterBits == 3
MaxInterval == 8
MaxBlock == 4
MaxBlocks == 3
MaxLocalOps == 5

\* ------------------------------------------------------- program constants
\* Time::Immediately, the facade's initial changes_bundle_time
Immediately == 0
\* the id of the top level Graph held by the Controller
TopLevelGraphId == 0
\* Superbeats::from_beats_f32(0.25), the look-ahead of run_callbacks, with
\* musical time counted in eighths of a beat
LookAhead == 2

\* two client threads, each with its own facade and its own LOCAL_GRAPH
Clients == {1, 2}

\* The facade run_callbacks makes for the callbacks of one pass: it sends on
\* the Controller's own channel, from the Controller's thread.
CallbackFacade == 0
Facades == Clients \cup {CallbackFacade}

VARIABLES
    \* --- facade (MultiThreadedKnystCommands), one per client thread and
    \*     the one run_callbacks hands to the callbacks
    selected_graph_remote_graph,
    bundle_changes,
    changes_bundle,
    changes_bundle_time,
    \* --- thread_local LOCAL_GRAPH: a stack of in-progress graphs per thread
    LOCAL_GRAPH,
    \* --- the scoped calls (schedule_bundle, upload_graph) a thread is inside
    scope,
    \* --- process wide id counters (NodeId::new, Graph::new)
    next_node_id,
    next_graph_id,
    \* --- the unbounded command channel (commands sent, not yet received)
    channel,
    \* --- the inspection reply channels whose Receiver is still held by a
    \*     client, each with the number of replies buffered in it
    inspection_rx,
    \* --- the bounded resources ring to the audio thread (what is in it),
    \*     and the ResourcesCommands the audio side has taken out of it
    resources_sender,
    resources,
    \* --- the block of audio the Graph has put out, sample by sample
    output,
    \* --- Controller
    top_level_graph,
    command_queue,
    beat_callbacks,
    error_log,
    ctl_pc,
    recv_i,
    cb_i,
    current_time_beats,
    all_commands_received,
    max_commands_before_update,
    \* --- the Graph's musical clock, get_current_time_musical()
    musical_time,
    \* --- the Arc<AtomicBool> free flags shared with the CallbackHandles
    free_flag,
    handles,
    \* --- history of the beat callbacks: the invocations of user_fn, and
    \*     the beat_callbacks list before and after the last run_callbacks
    fired,
    last_pass,
    \* --- the search of StartBeat::Multiple for the next multiple, turn by
    \*     turn: the beats, the current beats, the counter i and where it is
    multiple_loop,
    \* --- the trigger Gens (trig.rs), each with the blocks it has put out
    interval_trig,
    once_trig,
    \* --- history (not program state): what was applied, what was returned
    applied,
    sent,
    sent_count,
    returned_ids,
    ops,
    calls,
    last_call

facadeVars == <<selected_graph_remote_graph, bundle_changes, changes_bundle,
                changes_bundle_time>>
idVars == <<next_node_id, next_graph_id>>
\* What no step of the command bus writes: the argument run is called
\* with, and the units that are stepped on their own.
unitVars == <<multiple_loop, interval_trig, once_trig>>
fixedVars == <<max_commands_before_update, unitVars>>
ctlVars == <<top_level_graph, command_queue, beat_callbacks, error_log, ctl_pc,
             recv_i, cb_i, current_time_beats, all_commands_received,
             fixedVars>>
histVars == <<applied, sent, sent_count, returned_ids, ops, calls, last_call>>
cbVars == <<musical_time, free_flag, handles, fired, last_pass>>
audioVars == <<resources_sender, resources, output>>
outVars == <<inspection_rx, audioVars>>
vars == <<facadeVars, LOCAL_GRAPH, scope, idVars, channel, outVars, ctlVars,
          cbVars, histVars>>

\* ----------------------------------------------------------------- helpers
Last(s) == s[Len(s)]
Front(s) == SubSeq(s, 1, Len(s) - 1)
RemoveAt(s, i) == SubSeq(s, 1, i - 1) \o SubSeq(s, i + 1, Len(s))
SeqRange(s) == {s[i] : i \in 1..Len(s)}

\* Option<Superbeats>
None == [some |-> FALSE, beats |-> 0]
Some(b) == [some |-> TRUE, beats |-> b]

\* ---------------------------------------------------------------- commands
\* enum Command. Every command is one record; the fields a variant does not
\* carry hold a default. `from` and `n` (the sender and its running number)
\* are history fields used only by the properties.
BaseCommand(type, c) ==
    [type |-> type, from |-> c, n |-> sent_count[c] + 1,
     node |-> 0, graph |-> 0, start_time |-> Immediately,
     sub |-> [nodes |-> {}, graphs |-> {}],
     valid |-> TRUE, changes |-> <<>>, cb |-> 0,
     start_beat |-> [kind |-> "Absolute", beats |-> 0], rx |-> 0]

\* ------------------------------------------------------------------- Graph
\* External collaborator (knyst's graph module), modelled by the interface the
\* facade and the Controller consume.  nodes: the NodeIds that exist in the
\* graph or in a graph pushed into it; graphs: the GraphIds it holds (its own
\* included); edges: the connections made; starts: the start time each node
\* was pushed with; pushed: the NodeIds ever pushed into it, freed or not.
NewGraph(id) ==
    [id |-> id, nodes |-> {}, graphs |-> {id}, edges |-> {}, starts |-> <<>>,
     scheduled |-> <<>>, pushed |-> {}]

\* What is pushed: a generator, or a whole graph with what it holds.
GenPayload == [nodes |-> {}, graphs |-> {}]
GraphPayload(g) == [nodes |-> g.nodes, graphs |-> g.graphs]

\* push_with_existing_address_to_graph_at_time
GraphPush(g, node, payload, graph_id, start_time) ==
    IF graph_id \in g.graphs
    THEN [graph |-> [g EXCEPT !.nodes = @ \cup {node} \cup payload.nodes,
                              !.pushed = @ \cup {node} \cup payload.nodes,
                              !.graphs = @ \cup payload.graphs,
                              !.starts = Append(@, <<node, start_time>>)],
          err |-> "none"]
    ELSE [graph |-> g, err |-> "GraphNotFound"]

\* The errors connect may answer for a node of a graph this graph does not
\* hold: the interface names them and does not fix which. A connection of
\* the model carries one endpoint; the answer also says which end of the
\* edge it is when the node has not been pushed.
MissingGraphAnswers ==
    {"GraphNotFound", "SourceNodeNotPushed", "SinkNodeNotPushed"}

\* The answers a Graph call is given: every one when a Graph is asked for a
\* node it may not hold, a single one when the answer is not looked at.
AnswersOf(asked) == IF asked THEN MissingGraphAnswers ELSE {"GraphNotFound"}

NotPushed(answer) ==
    IF answer = "SinkNodeNotPushed" THEN answer ELSE "SourceNodeNotPushed"

\* connect. A connection is [node, graph, valid]: the NodeId it leaves from,
\* that NodeId's GraphId hint, and whether the edge is well formed.
GraphConnect(g, connection, answer) ==
    IF connection.node \in g.nodes
    THEN IF connection.valid
         THEN [graph |-> [g EXCEPT !.edges = @ \cup {connection.node}],
               err |-> "none"]
         ELSE [graph |-> g, err |-> "ChannelOutOfBounds"]
    ELSE IF connection.graph \in g.graphs
         THEN [graph |-> g, err |-> NotPushed(answer)]
         ELSE [graph |-> g, err |-> answer]

\* schedule_change / schedule_changes on a graph: kept by its scheduler when
\* the node is in the graph.
GraphScheduleChanges(g, changes, time) ==
    IF \A k \in 1..Len(changes) : changes[k].node \in g.nodes
    THEN [graph |-> [g EXCEPT !.scheduled = Append(@, <<time, changes>>)],
          err |-> "none"]
    ELSE [graph |-> g, err |-> "GraphNotFound"]

\* disconnect: the errors of connect; the edge is removed.
GraphDisconnect(g, connection, answer) ==
    IF connection.node \in g.nodes
    THEN IF connection.valid
         THEN [graph |-> [g EXCEPT !.edges = @ \ {connection.node}],
               err |-> "none"]
         ELSE [graph |-> g, err |-> "ChannelOutOfBounds"]
    ELSE IF connection.graph \in g.graphs
         THEN [graph |-> g, err |-> NotPushed(answer)]
         ELSE [graph |-> g, err |-> answer]

\* free_node / free_node_mend_connections: the node leaves the graph; for a
\* node the graph does not hold, NodeNotFound, or GraphNotFound when the
\* node names another graph.
GraphFreeNode(g, node, answer) ==
    IF node \in g.nodes
    THEN [graph |-> [g EXCEPT !.nodes = @ \ {node}, !.edges = @ \ {node}],
          err |-> "none"]
    ELSE [graph |-> g,
          err |-> IF answer = "GraphNotFound" THEN answer ELSE "NodeNotFound"]

\* The audio side of a graph at sample s: the nodes whose start time has
\* come, each with the value its parameter has at s, which is the one of
\* the latest change scheduled for a time up to s (0 when there is none).
ChangesFor(g, n, s) ==
    {x \in UNION {{<<k, j>> : j \in 1..Len(g.scheduled[k][2])} :
                     k \in 1..Len(g.scheduled)} :
        /\ g.scheduled[x[1]][2][x[2]].node = n
        /\ g.scheduled[x[1]][1] <= s}

ParamAt(g, n, s) ==
    LET cs == ChangesFor(g, n, s)
        after(a, b) ==
            \/ g.scheduled[a[1]][1] > g.scheduled[b[1]][1]
            \/ /\ g.scheduled[a[1]][1] = g.scheduled[b[1]][1]
               /\ (a[1] > b[1] \/ (a[1] = b[1] /\ a[2] > b[2]))
    IN  IF cs = {} THEN 0
        ELSE LET x == CHOOSE a \in cs : \A b \in cs \ {a} : after(a, b)
             IN  g.scheduled[x[1]][2][x[2]].value

AudioAt(g, s) ==
    {[node |-> g.starts[k][1], value |-> ParamAt(g, g.starts[k][1], s)] :
        k \in {i \in 1..Len(g.starts) : g.starts[i][2] <= s}}

\* history: no scoped call has ended yet on a thread
NoCall == [kind |-> "none"]
\* history: the scope state of a thread as a scoped call leaves it
StateOf(flag, bundle, stack) ==
    [bundle_changes |-> flag, changes_bundle |-> bundle, depth |-> Len(stack)]

\* history: a run_callbacks pass, by the musical time it read, the callbacks
\* whose free flag was set when it began, the number of invocations made
\* before it, and beat_callbacks before and after it
Pass(time, freed, list, invocations, done) ==
    [time |-> time, freed |-> freed, before |-> list, after |-> list,
     fired |-> invocations, done |-> done]

\* ------------------------------------------------------------------- units
\* The search of StartBeat::Multiple(beats) at current_beats, before its
\* first turn: let mut i = 1.
NewMultipleLoop(beats, current_beats) ==
    [beats |-> beats, current_beats |-> current_beats, i |-> 1, pc |-> "loop"]

\* IntervalTrig::new / init: the counter is Superseconds::ZERO. The interval
\* is the value its input holds at every sample, as Superseconds, and
\* block_size the number of samples of one process call.
NewIntervalTrig(interval, block_size) ==
    [counter |-> 0, interval |-> interval, block_size |-> block_size,
     blocks |-> <<>>]

\* OnceTrig::new: OnceTrig(false).
NewOnceTrig == [triggered |-> FALSE, blocks |-> <<>>, returned |-> <<>>]

\* -------------------------------------------------------------------- Init
\* Controller::new, get_knyst_commands / start_on_new_thread, an empty
\* LOCAL_GRAPH on every thread.
InitBus ==
    /\ selected_graph_remote_graph = [c \in Facades |-> TopLevelGraphId]
    /\ bundle_changes = [c \in Facades |-> FALSE]
    /\ changes_bundle = [c \in Facades |-> <<>>]
    /\ changes_bundle_time = [c \in Facades |-> Immediately]
    /\ LOCAL_GRAPH = [c \in Clients |-> <<>>]
    /\ next_node_id = 1
    /\ next_graph_id = TopLevelGraphId + 1
    /\ channel = <<>>
    /\ inspection_rx = <<>>
    /\ resources_sender = <<>>
    /\ resources = <<>>
    /\ output = <<>>
    /\ top_level_graph = NewGraph(TopLevelGraphId)
    /\ command_queue = <<>>
    /\ beat_callbacks = <<>>
    /\ error_log = <<>>
    /\ ctl_pc = "run"
    /\ recv_i = 0
    /\ cb_i = 0
    /\ current_time_beats = None
    /\ all_commands_received = FALSE
    /\ max_commands_before_update \in {0, MaxMaxCommands}
    /\ musical_time = None
    /\ free_flag = <<>>
    /\ handles = {}
    /\ fired = <<>>
    /\ last_pass = Pass(None, {}, <<>>, 0, TRUE)
    /\ applied = <<>>
    /\ sent = <<>>
    /\ sent_count = [c \in Facades |-> 0]
    /\ returned_ids = {}
    /\ ops = 0
    /\ calls = [c \in Clients |-> <<>>]
    /\ last_call = [c \in Clients |-> NoCall]
    /\ scope = [c \in Clients |-> <<>>]

\* The command bus, with no unit under way.
Init ==
    /\ InitBus
    /\ multiple_loop = NewMultipleLoop(1, 0)
    /\ interval_trig = NewIntervalTrig(1, 1)
    /\ once_trig = NewOnceTrig

\* ------------------------------------------------------------------ facade
\* self.sender.send(command).unwrap(): the channel is unbounded, the
\* Controller keeps a Sender and the Receiver, so send never fails.
Send(c, command) ==
    /\ channel' = Append(channel, command)
    /\ sent' = Append(sent, command)
    /\ sent_count' = [sent_count EXCEPT ![c] = @ + 1]

\* The local branch of push: the top graph of the thread's stack takes the
\* node with the facade's changes_bundle_time.
PushLocal(c, stack, node, payload) ==
    LET g == Last(stack)
        r == GraphPush(g, node, payload, g.id, changes_bundle_time[c])
    IN  LOCAL_GRAPH' = [LOCAL_GRAPH EXCEPT ![c] = Append(Front(stack), r.graph)]

\* A remote push that leaves the start time at Immediately.
PushRemoteImmediately(c, node, payload, graph_id) ==
    Send(c, [BaseCommand("Push", c) EXCEPT
                !.node = node, !.graph = graph_id, !.sub = payload])

\* The remote branch of push_to_graph_without_inputs: NodeId::new(), send
\* Command::Push with start_time = changes_bundle_time, set_graph_id.
PushRemote(c, node, payload, graph_id) ==
    Send(c, [BaseCommand("Push", c) EXCEPT
                !.node = node, !.graph = graph_id, !.sub = payload,
                !.start_time = changes_bundle_time[c]])

\* A push that passes by the local graph: always sent to the selected graph.
push_remote(c, stack, payload) ==
    /\ PushRemote(c, next_node_id, payload, selected_graph_remote_graph[c])
    /\ returned_ids' = returned_ids \cup
           {[id |-> next_node_id, graph |-> selected_graph_remote_graph[c]]}
    /\ LOCAL_GRAPH' = [LOCAL_GRAPH EXCEPT ![c] = stack]
    /\ next_node_id' = next_node_id + 1

\* push(gen_or_graph, inputs![]) / push_without_inputs, called with `stack`
\* as the thread's LOCAL_GRAPH: into its top graph when there is one, else
\* push_to_graph_without_inputs to the selected graph. The NodeId returned
\* carries its GraphId hint.
push(c, stack, payload) ==
    /\ IF stack # <<>>
       THEN /\ PushLocal(c, stack, next_node_id, payload)
            /\ returned_ids' = returned_ids \cup
                   {[id |-> next_node_id, graph |-> Last(stack).id]}
            /\ UNCHANGED <<channel, sent, sent_count>>
       ELSE /\ PushRemote(c, next_node_id, payload,
                          selected_graph_remote_graph[c])
            /\ returned_ids' = returned_ids \cup
                   {[id |-> next_node_id,
                     graph |-> selected_graph_remote_graph[c]]}
            /\ LOCAL_GRAPH' = [LOCAL_GRAPH EXCEPT ![c] = stack]
    /\ next_node_id' = next_node_id + 1

\* The local branch of push_to_graph_without_inputs: the top graph of the
\* thread's stack takes the node through push_with_existing_address_to_graph,
\* which is given no time: the node starts immediately.
PushLocalToGraph(c, stack, node, payload) ==
    LET g == Last(stack)
        r == GraphPush(g, node, payload, g.id, Immediately)
    IN  LOCAL_GRAPH' = [LOCAL_GRAPH EXCEPT ![c] = Append(Front(stack), r.graph)]

\* push_to_graph_without_inputs(gen_or_graph, graph_id): into the top local
\* graph when its id is graph_id; with another local graph on top a message
\* is printed and, as with no local graph, Command::Push is sent.
push_to_graph_without_inputs(c, stack, payload, graph_id) ==
    /\ IF stack # <<>> /\ Last(stack).id = graph_id
       THEN /\ PushLocalToGraph(c, stack, next_node_id, payload)
            /\ UNCHANGED <<channel, sent, sent_count>>
       ELSE /\ PushRemote(c, next_node_id, payload, graph_id)
            /\ LOCAL_GRAPH' = [LOCAL_GRAPH EXCEPT ![c] = stack]
    /\ returned_ids' = returned_ids \cup
           {[id |-> next_node_id, graph |-> graph_id]}
    /\ next_node_id' = next_node_id + 1

\* disconnect(connection): always sent.
disconnect(c, connection) ==
    Send(c, [BaseCommand("Disconnect", c) EXCEPT
                !.node = connection.node, !.graph = connection.graph,
                !.valid = connection.valid])

\* A free_node that is not sent while a local graph is active.
free_node_unless_local(c, node) ==
    IF LOCAL_GRAPH[c] # <<>>
    THEN UNCHANGED <<channel, sent, sent_count>>
    ELSE Send(c, [BaseCommand("FreeNode", c) EXCEPT !.node = node])

\* free_disconnected_nodes, free_node_mend_connections(node),
\* free_node(node): always sent.
free_disconnected_nodes(c) == Send(c, BaseCommand("FreeDisconnectedNodes", c))

free_node_mend_connections(c, node) ==
    Send(c, [BaseCommand("FreeNodeMendConnections", c) EXCEPT !.node = node])

free_node(c, node) ==
    Send(c, [BaseCommand("FreeNode", c) EXCEPT !.node = node])

\* A connect that sends whatever the local graph could not make.
connect_or_send(c, connection, answer) ==
    IF LOCAL_GRAPH[c] # <<>> /\
       GraphConnect(Last(LOCAL_GRAPH[c]), connection, answer).err = "none"
    THEN /\ LOCAL_GRAPH' = [LOCAL_GRAPH EXCEPT ![c] = Append(Front(@),
               GraphConnect(Last(LOCAL_GRAPH[c]), connection, answer).graph)]
         /\ UNCHANGED <<channel, sent, sent_count>>
    ELSE /\ Send(c, [BaseCommand("Connect", c) EXCEPT
                        !.node = connection.node,
                        !.graph = connection.graph,
                        !.valid = connection.valid])
         /\ UNCHANGED LOCAL_GRAPH

\* connect(connection): the top local graph first; sent to the Controller
\* when there is no local graph or it answers GraphNotFound; any other local
\* error is printed and the connection is not sent.
connect(c, connection, answer) ==
    IF LOCAL_GRAPH[c] # <<>>
    THEN LET r == GraphConnect(Last(LOCAL_GRAPH[c]), connection, answer)
         IN  IF r.err = "GraphNotFound"
             THEN /\ Send(c, [BaseCommand("Connect", c) EXCEPT
                                 !.node = connection.node,
                                 !.graph = connection.graph,
                                 !.valid = connection.valid])
                  /\ UNCHANGED LOCAL_GRAPH
             ELSE /\ LOCAL_GRAPH' = [LOCAL_GRAPH EXCEPT
                                        ![c] = Append(Front(@), r.graph)]
                  /\ UNCHANGED <<channel, sent, sent_count>>
    ELSE /\ Send(c, [BaseCommand("Connect", c) EXCEPT
                        !.node = connection.node,
                        !.graph = connection.graph,
                        !.valid = connection.valid])
         /\ UNCHANGED LOCAL_GRAPH

\* init_local_graph(settings): Graph::new, pushed on the thread's stack.
init_local_graph(c) ==
    /\ LOCAL_GRAPH' = [LOCAL_GRAPH EXCEPT
                          ![c] = Append(@, NewGraph(next_graph_id))]
    /\ next_graph_id' = next_graph_id + 1

\* An upload_local_graph that sends the popped graph whatever is left on
\* the stack.
upload_local_graph_remote(c) ==
    IF LOCAL_GRAPH[c] # <<>>
    THEN push_remote(c, Front(LOCAL_GRAPH[c]),
                     GraphPayload(Last(LOCAL_GRAPH[c])))
    ELSE /\ next_node_id' = next_node_id + 1
         /\ UNCHANGED <<LOCAL_GRAPH, channel, sent, sent_count, returned_ids>>

\* An upload that pushes an empty Graph when the stack holds none.
upload_local_graph_or_empty(c) ==
    IF LOCAL_GRAPH[c] # <<>>
    THEN push(c, Front(LOCAL_GRAPH[c]), GraphPayload(Last(LOCAL_GRAPH[c])))
    ELSE push(c, <<>>, GraphPayload(NewGraph(next_graph_id)))

\* upload_local_graph: pop the stack; the popped graph is pushed, as one
\* node, by push_without_inputs (so into the new top of the stack, or sent).
\* With an empty stack: a message is printed, a NodeId is made for the
\* handle, nothing is sent.
upload_local_graph(c) ==
    IF LOCAL_GRAPH[c] # <<>>
    THEN push(c, Front(LOCAL_GRAPH[c]), GraphPayload(Last(LOCAL_GRAPH[c])))
    ELSE /\ next_node_id' = next_node_id + 1
         /\ UNCHANGED <<LOCAL_GRAPH, channel, sent, sent_count, returned_ids>>

\* request_inspection: sync_channel(1), the SyncSender goes into the
\* command, the Receiver is returned to the caller.
request_inspection(c, rx) ==
    /\ Send(c, [BaseCommand("RequestInspection", c) EXCEPT !.rx = rx])
    /\ inspection_rx' = [x \in DOMAIN inspection_rx \cup {rx} |->
                            IF x = rx THEN 0 ELSE inspection_rx[x]]

\* A schedule_change that passes by the local graph: sent whenever no
\* bundle is open.
schedule_change_remote(c, change) ==
    IF bundle_changes[c]
    THEN /\ changes_bundle' = [changes_bundle EXCEPT
               ![c] = Append(@, [node |-> change.node, value |-> change.value])]
         /\ UNCHANGED <<LOCAL_GRAPH, channel, sent, sent_count>>
    ELSE /\ Send(c, [BaseCommand("ScheduleChange", c) EXCEPT
                        !.changes = <<[node |-> change.node,
                                       value |-> change.value]>>,
                        !.start_time = change.time])
         /\ UNCHANGED <<changes_bundle, LOCAL_GRAPH>>

\* schedule_change(change): appended to changes_bundle as a NodeChanges
\* (node, channel and value; offset None) while a bundle is open; else
\* applied to the top local graph (an error is printed); else sent.
schedule_change(c, change) ==
    IF bundle_changes[c]
    THEN /\ changes_bundle' = [changes_bundle EXCEPT
               ![c] = Append(@, [node |-> change.node, value |-> change.value])]
         /\ UNCHANGED <<LOCAL_GRAPH, channel, sent, sent_count>>
    ELSE IF LOCAL_GRAPH[c] # <<>>
    THEN /\ LOCAL_GRAPH' = [LOCAL_GRAPH EXCEPT ![c] = Append(Front(@),
               GraphScheduleChanges(Last(LOCAL_GRAPH[c]),
                   <<[node |-> change.node, value |-> change.value]>>,
                   change.time).graph)]
         /\ UNCHANGED <<changes_bundle, channel, sent, sent_count>>
    ELSE /\ Send(c, [BaseCommand("ScheduleChange", c) EXCEPT
                        !.changes = <<[node |-> change.node,
                                       value |-> change.value]>>,
                        !.start_time = change.time])
         /\ UNCHANGED <<changes_bundle, LOCAL_GRAPH>>

\* schedule_changes(changes), called with the facade's bundle_changes flag
\* as `bundling`: extends changes_bundle while a bundle is open; else
\* applied to the top local graph; else sent as Command::ScheduleChanges.
schedule_changes(c, bundling, changes) ==
    IF bundling
    THEN /\ changes_bundle' = [changes_bundle EXCEPT
                                  ![c] = @ \o changes.changes]
         /\ UNCHANGED <<LOCAL_GRAPH, channel, sent, sent_count>>
    ELSE IF LOCAL_GRAPH[c] # <<>>
    THEN /\ LOCAL_GRAPH' = [LOCAL_GRAPH EXCEPT ![c] = Append(Front(@),
               GraphScheduleChanges(Last(LOCAL_GRAPH[c]), changes.changes,
                                    changes.time).graph)]
         /\ UNCHANGED <<channel, sent, sent_count>>
    ELSE /\ Send(c, [BaseCommand("ScheduleChanges", c) EXCEPT
                        !.changes = changes.changes,
                        !.start_time = changes.time])
         /\ UNCHANGED LOCAL_GRAPH

\* A start_scheduling_bundle that begins with an empty bundle.
start_scheduling_bundle_discarding(c, time) ==
    /\ bundle_changes' = [bundle_changes EXCEPT ![c] = TRUE]
    /\ changes_bundle_time' = [changes_bundle_time EXCEPT ![c] = time]
    /\ changes_bundle' = [changes_bundle EXCEPT ![c] = <<>>]

\* to_graph(graph_id): later pushes without a target go to graph_id.
to_graph(c, graph_id) ==
    selected_graph_remote_graph' =
        [selected_graph_remote_graph EXCEPT ![c] = graph_id]

\* start_scheduling_bundle(time): the flag and the time are set; a bundle
\* that still holds changes is kept (a warning is printed).
start_scheduling_bundle(c, time) ==
    /\ bundle_changes' = [bundle_changes EXCEPT ![c] = TRUE]
    /\ changes_bundle_time' = [changes_bundle_time EXCEPT ![c] = time]
    /\ UNCHANGED changes_bundle

\* An upload_scheduling_bundle that leaves the bundle's time in place.
upload_scheduling_bundle_keeping_time(c) ==
    /\ bundle_changes' = [bundle_changes EXCEPT ![c] = FALSE]
    /\ schedule_changes(c, FALSE, [time |-> changes_bundle_time[c],
                                   changes |-> changes_bundle[c]])
    /\ changes_bundle' = [changes_bundle EXCEPT ![c] = <<>>]
    /\ UNCHANGED changes_bundle_time

\* upload_scheduling_bundle: the flag is cleared, the bundle goes through
\* schedule_changes with the stored time, then the bundle is emptied and
\* the time is Immediately again.
upload_scheduling_bundle(c) ==
    /\ bundle_changes' = [bundle_changes EXCEPT ![c] = FALSE]
    /\ schedule_changes(c, FALSE, [time |-> changes_bundle_time[c],
                                   changes |-> changes_bundle[c]])
    /\ changes_bundle' = [changes_bundle EXCEPT ![c] = <<>>]
    /\ changes_bundle_time' = [changes_bundle_time EXCEPT ![c] = Immediately]

\* ------------------------------------------------------------ client steps
\* What a client thread may do next. Every call is written to the thread's
\* history `calls`.
Times == 0..MaxTime

Connections ==
    {[node |-> id.id, graph |-> id.graph, valid |-> v] :
        id \in returned_ids, v \in BOOLEAN}

Changes ==
    {[node |-> id.id, value |-> v, time |-> Immediately] :
        id \in returned_ids, v \in 1..MaxValue}

Called(c, call) ==
    /\ calls' = [calls EXCEPT ![c] = Append(@, call)]
    /\ ops' = ops + 1

ClientPush(c) ==
    /\ push(c, LOCAL_GRAPH[c], GenPayload)
    /\ Called(c, <<"push", next_node_id>>)
    /\ UNCHANGED <<facadeVars, scope, next_graph_id, outVars, ctlVars,
                   cbVars, applied, last_call>>

ClientConnect(c) ==
    /\ \E connection \in Connections,
          answer \in AnswersOf(LOCAL_GRAPH[c] # <<>>) :
          connect(c, connection, answer)
    /\ Called(c, <<"connect", 0>>)
    /\ UNCHANGED <<facadeVars, scope, idVars, outVars, ctlVars, cbVars,
                   applied, returned_ids, last_call>>

\* The NodeIds a thread may hold: those returned by pushes, and one under
\* which nothing was ever pushed.
NoNode == 0
HeldNodes == {id.id : id \in returned_ids} \cup {NoNode}

AnyConnections ==
    Connections \cup {[node |-> NoNode, graph |-> TopLevelGraphId,
                       valid |-> TRUE]}

NodeChanges ==
    {[node |-> n, value |-> v] : n \in HeldNodes, v \in {1, MaxValue}}

AnyChanges ==
    {[node |-> ch.node, value |-> ch.value, time |-> MaxTime] :
        ch \in NodeChanges}

SimultaneousChanges ==
    {[time |-> MaxTime, changes |-> <<a, [a EXCEPT !.value = 1]>>] :
        a \in NodeChanges}

ClientPushToGraph(c) ==
    /\ \E graph_id \in 0..(next_graph_id - 1) :
          /\ push_to_graph_without_inputs(c, LOCAL_GRAPH[c], GenPayload,
                                          graph_id)
          /\ Called(c, <<"push_to_graph",
                         [node |-> next_node_id, graph |-> graph_id]>>)
    /\ UNCHANGED <<facadeVars, scope, next_graph_id, outVars, ctlVars,
                   cbVars, applied, last_call>>

ClientConnectAny(c) ==
    /\ \E connection \in AnyConnections,
          answer \in AnswersOf(LOCAL_GRAPH[c] # <<>>) :
          /\ connect(c, connection, answer)
          /\ Called(c, <<"connect", connection>>)
    /\ UNCHANGED <<facadeVars, scope, idVars, outVars, ctlVars, cbVars,
                   applied, returned_ids, last_call>>

ClientDisconnect(c) ==
    /\ \E connection \in AnyConnections :
          /\ disconnect(c, connection)
          /\ Called(c, <<"disconnect", connection>>)
    /\ UNCHANGED <<facadeVars, LOCAL_GRAPH, scope, idVars, outVars, ctlVars,
                   cbVars, applied, returned_ids, last_call>>

ClientFreeNode(c) ==
    /\ \E node \in HeldNodes :
          \/ free_node(c, node) /\ Called(c, <<"free_node", node>>)
          \/ /\ free_node_mend_connections(c, node)
             /\ Called(c, <<"free_node_mend_connections", node>>)
          \/ /\ free_disconnected_nodes(c)
             /\ Called(c, <<"free_disconnected_nodes", NoNode>>)
    /\ UNCHANGED <<facadeVars, LOCAL_GRAPH, scope, idVars, outVars, ctlVars,
                   cbVars, applied, returned_ids, last_call>>

ClientScheduleChangeAny(c) ==
    /\ \E change \in AnyChanges :
          /\ schedule_change(c, change)
          /\ Called(c, <<"schedule_change", change>>)
    /\ UNCHANGED <<selected_graph_remote_graph, bundle_changes,
                   changes_bundle_time, scope, idVars, outVars, ctlVars,
                   cbVars, applied, returned_ids, last_call>>

ClientScheduleChanges(c) ==
    /\ \E changes \in SimultaneousChanges :
          /\ schedule_changes(c, bundle_changes[c], changes)
          /\ IF bundle_changes[c] THEN TRUE ELSE UNCHANGED changes_bundle
          /\ Called(c, <<"schedule_changes", changes>>)
    /\ UNCHANGED <<selected_graph_remote_graph, bundle_changes,
                   changes_bundle_time, scope, idVars, outVars, ctlVars,
                   cbVars, applied, returned_ids, last_call>>

ClientToGraph(c) ==
    /\ \E graph_id \in 0..(next_graph_id - 1) :
          /\ to_graph(c, graph_id)
          /\ Called(c, <<"to_graph", graph_id>>)
    /\ UNCHANGED <<bundle_changes, changes_bundle, changes_bundle_time,
                   LOCAL_GRAPH, scope, idVars, channel, outVars, ctlVars,
                   cbVars, applied, sent, sent_count, returned_ids, last_call>>

ClientStartSchedulingBundle(c) ==
    /\ \E time \in Times :
          /\ start_scheduling_bundle(c, time)
          /\ Called(c, <<"start_scheduling_bundle", time>>)
    /\ UNCHANGED <<selected_graph_remote_graph, LOCAL_GRAPH,
                   scope, idVars, channel, outVars, ctlVars, cbVars, applied,
                   sent, sent_count, returned_ids, last_call>>

ClientUploadSchedulingBundle(c) ==
    /\ upload_scheduling_bundle(c)
    /\ Called(c, <<"upload_scheduling_bundle", 0>>)
    /\ UNCHANGED <<selected_graph_remote_graph, scope, idVars, outVars,
                   ctlVars, cbVars, applied, returned_ids, last_call>>

ClientInitLocalGraph(c) ==
    /\ Len(LOCAL_GRAPH[c]) < MaxDepth
    /\ init_local_graph(c)
    /\ Called(c, <<"init_local_graph", 0>>)
    /\ UNCHANGED <<facadeVars, scope, next_node_id, channel, outVars,
                   ctlVars, cbVars, applied, sent, sent_count, returned_ids,
                   last_call>>

\* init_local_graph inside a local graph, to a depth of MaxNesting.
ClientInitNestedLocalGraph(c) ==
    /\ Len(LOCAL_GRAPH[c]) < MaxNesting
    /\ init_local_graph(c)
    /\ Called(c, <<"init_local_graph", 0>>)
    /\ UNCHANGED <<facadeVars, scope, next_node_id, channel, outVars,
                   ctlVars, cbVars, applied, sent, sent_count, returned_ids,
                   last_call>>

ClientUploadLocalGraph(c) ==
    /\ upload_local_graph(c)
    /\ Called(c, <<"upload_local_graph", 0>>)
    /\ UNCHANGED <<facadeVars, scope, next_graph_id, outVars, ctlVars,
                   cbVars, applied, last_call>>

ClientRequestInspection(c) ==
    /\ request_inspection(c, ops + 1)
    /\ Called(c, <<"request_inspection", 0>>)
    /\ UNCHANGED <<facadeVars, LOCAL_GRAPH, scope, idVars, audioVars,
                   ctlVars, cbVars, applied, returned_ids, last_call>>

\* A client drops a Receiver it got from request_inspection.
DropReceiver ==
    /\ \E rx \in DOMAIN inspection_rx :
          inspection_rx' = [x \in DOMAIN inspection_rx \ {rx} |->
                               inspection_rx[x]]
    /\ ops' = ops + 1
    /\ UNCHANGED <<facadeVars, LOCAL_GRAPH, scope, idVars, channel,
                   audioVars, ctlVars, cbVars, applied, sent, sent_count,
                   returned_ids, calls, last_call>>

ClientScheduleChange(c) ==
    /\ \E change \in Changes :
          /\ schedule_change(c, change)
          /\ Called(c, <<"schedule_change",
                         [node |-> change.node, value |-> change.value]>>)
    /\ UNCHANGED <<selected_graph_remote_graph, bundle_changes,
                   changes_bundle_time, scope, idVars, outVars, ctlVars,
                   cbVars, applied, returned_ids, last_call>>

\* schedule_bundle(time, c): start_scheduling_bundle, then the closure runs.
ScheduleBundleCall(c) ==
    /\ Len(scope[c]) < MaxScope
    /\ \E time \in Times :
          /\ start_scheduling_bundle(c, time)
          /\ scope' = [scope EXCEPT ![c] = Append(@,
                [kind |-> "schedule_bundle", time |-> time,
                 depth |-> Len(LOCAL_GRAPH[c]),
                 open |-> bundle_changes[c] \/ changes_bundle[c] # <<>>,
                 first_call |-> Len(calls[c]) + 2,
                 first_sent |-> sent_count[c] + 1])]
          /\ Called(c, <<"schedule_bundle", time>>)
    /\ UNCHANGED <<selected_graph_remote_graph, LOCAL_GRAPH,
                   idVars, channel, outVars, ctlVars, cbVars, applied,
                   sent, sent_count, returned_ids, last_call>>

\* schedule_bundle, after the closure has returned: upload_scheduling_bundle.
ScheduleBundleReturn(c) ==
    /\ scope[c] # <<>>
    /\ Last(scope[c]).kind = "schedule_bundle"
    /\ upload_scheduling_bundle(c)
    /\ scope' = [scope EXCEPT ![c] = Front(@)]
    /\ last_call' = [last_call EXCEPT ![c] =
          [kind |-> "schedule_bundle", exit |-> "return",
           frame |-> Last(scope[c]),
           last_call |-> Len(calls[c]),
           last_sent |-> sent_count'[c],
           after |-> StateOf(bundle_changes'[c], changes_bundle'[c],
                             LOCAL_GRAPH'[c])]]
    /\ Called(c, <<"return", 0>>)
    /\ UNCHANGED <<selected_graph_remote_graph, idVars, outVars,
                   ctlVars, cbVars, applied, returned_ids>>

\* upload_graph(settings, init): init_local_graph, then the closure runs.
UploadGraphCall(c) ==
    /\ Len(scope[c]) < MaxScope
    /\ Len(LOCAL_GRAPH[c]) < MaxDepth
    /\ init_local_graph(c)
    /\ scope' = [scope EXCEPT ![c] = Append(@,
          [kind |-> "upload_graph", time |-> Immediately,
           depth |-> Len(LOCAL_GRAPH[c]),
           open |-> bundle_changes[c] \/ changes_bundle[c] # <<>>,
           first_call |-> Len(calls[c]) + 2,
           first_sent |-> sent_count[c] + 1])]
    /\ Called(c, <<"upload_graph", 0>>)
    /\ UNCHANGED <<facadeVars, next_node_id, channel, outVars, ctlVars,
                   cbVars, applied, sent, sent_count, returned_ids,
                   last_call>>

\* upload_graph, after the closure has returned: upload_local_graph.
UploadGraphReturn(c) ==
    /\ scope[c] # <<>>
    /\ Last(scope[c]).kind = "upload_graph"
    /\ upload_local_graph(c)
    /\ scope' = [scope EXCEPT ![c] = Front(@)]
    /\ last_call' = [last_call EXCEPT ![c] =
          [kind |-> "upload_graph", exit |-> "return",
           frame |-> Last(scope[c]),
           last_call |-> Len(calls[c]),
           last_sent |-> sent_count'[c],
           after |-> StateOf(bundle_changes[c], changes_bundle[c],
                             LOCAL_GRAPH'[c])]]
    /\ Called(c, <<"return", 0>>)
    /\ UNCHANGED <<facadeVars, next_graph_id, outVars, ctlVars, cbVars,
                   applied>>

\* The closure of the innermost scoped call panics. Neither schedule_bundle
\* nor upload_graph holds a guard: the unwinding runs none of their code
\* and leaves every scoped call the thread is inside. The facade and
\* LOCAL_GRAPH are thread locals and outlive a caught panic.
ClosurePanics(c) ==
    /\ scope[c] # <<>>
    /\ scope' = [scope EXCEPT ![c] = <<>>]
    /\ last_call' = [last_call EXCEPT ![c] =
          [kind |-> scope[c][1].kind, exit |-> "panic",
           frame |-> scope[c][1],
           last_call |-> Len(calls[c]),
           last_sent |-> sent_count[c],
           after |-> StateOf(bundle_changes[c], changes_bundle[c],
                             LOCAL_GRAPH[c])]]
    /\ Called(c, <<"panic", 0>>)
    /\ UNCHANGED <<facadeVars, LOCAL_GRAPH, idVars, channel, outVars,
                   ctlVars, cbVars, applied, sent, sent_count, returned_ids>>

\* -------------------------------------------------------------- Controller
\* StartBeat resolved against the current musical time: Absolute(b) is b,
\* Multiple(b) is b * i for the first i = 1, 2, ... with b * i >= current.
RECURSIVE MultipleLoop(_, _, _)
MultipleLoop(beats, current_beats, i) ==
    IF beats * i < current_beats
    THEN MultipleLoop(beats, current_beats, i + 1)
    ELSE beats * i

start_timestamp(start_beat, current_beats) ==
    IF start_beat.kind = "Absolute"
    THEN start_beat.beats
    ELSE MultipleLoop(start_beat.beats, current_beats, 1)

\* What apply_command does with one command. The result names the Graph
\* after it, whether the command was pushed onto command_queue, the error
\* handed to the error handler ("none": not called), the beat callbacks
\* after it, and whether the call panicked (an unwrap on None / on Err).
Applied(graph, queued, err) ==
    [graph |-> graph, queued |-> queued, err |-> err,
     callbacks |-> beat_callbacks, replied |-> FALSE, panic |-> FALSE,
     ring |-> resources_sender, deferred |-> <<>>]

Panicked ==
    [graph |-> top_level_graph, queued |-> FALSE, err |-> "none",
     callbacks |-> beat_callbacks, replied |-> FALSE, panic |-> TRUE,
     ring |-> resources_sender, deferred |-> <<>>]

\* The commands whose Graph call can fail for a missing node or graph.
GraphCalls ==
    {"Connect", "Disconnect", "FreeNode", "FreeNodeMendConnections"}

\* self.command_queue.push((Instant::now(), command)); Ok(())
Deferring(command) ==
    [Applied(top_level_graph, TRUE, "none") EXCEPT !.deferred = <<command>>]

\* A Push that is put onto command_queue when the Graph refuses it.
ApplyPushDeferring(command) ==
    LET r == GraphPush(top_level_graph, command.node, command.sub,
                       command.graph, command.start_time)
    IN  IF r.err = "none" THEN Applied(r.graph, FALSE, r.err)
        ELSE Deferring(command)

\* A Connect that reports the not-pushed errors and defers the others.
ApplyConnectReporting(command, answer) ==
    LET r == GraphConnect(top_level_graph,
                          [node |-> command.node, graph |-> command.graph,
                           valid |-> command.valid], answer)
    IN  IF r.err \in {"SourceNodeNotPushed", "SinkNodeNotPushed", "none"}
        THEN Applied(r.graph, FALSE, r.err)
        ELSE Deferring(command)

\* A Push that leaves the Graph as it is.
ApplyPushDropped(command) == Applied(top_level_graph, FALSE, "none")

ApplyPush(command) ==
    LET r == GraphPush(top_level_graph, command.node, command.sub,
                       command.graph, command.start_time)
    IN  Applied(r.graph, FALSE, r.err)

ApplyConnect(command, answer) ==
    LET r == GraphConnect(top_level_graph,
                          [node |-> command.node, graph |-> command.graph,
                           valid |-> command.valid], answer)
    IN  IF r.err \in {"SourceNodeNotPushed", "SinkNodeNotPushed"}
        THEN Deferring(command)
        ELSE Applied(r.graph, FALSE, r.err)

\* Command::Disconnect: as Command::Connect, through Graph::disconnect.
ApplyDisconnect(command, answer) ==
    LET r == GraphDisconnect(top_level_graph,
                             [node |-> command.node, graph |-> command.graph,
                              valid |-> command.valid], answer)
    IN  IF r.err \in {"SourceNodeNotPushed", "SinkNodeNotPushed"}
        THEN Deferring(command)
        ELSE Applied(r.graph, FALSE, r.err)

\* Command::FreeNode: NodeNotFound puts Command::FreeNode(node) onto
\* command_queue, any other error is reported.
ApplyFreeNode(command, answer) ==
    LET r == GraphFreeNode(top_level_graph, command.node, answer)
    IN  IF r.err = "NodeNotFound"
        THEN Deferring(command)
        ELSE Applied(r.graph, FALSE, r.err)

\* Command::FreeNodeMendConnections: NodeNotFound puts
\* Command::FreeNodeMendConnections(node) onto command_queue.
ApplyFreeNodeMendConnections(command, answer) ==
    LET r == GraphFreeNode(top_level_graph, command.node, answer)
    IN  IF r.err = "NodeNotFound"
        THEN Deferring(command)
        ELSE Applied(r.graph, FALSE, r.err)

ApplyScheduleBeatCallback(command) ==
    IF ~musical_time.some
    THEN Panicked
    ELSE [Applied(top_level_graph, FALSE, "none") EXCEPT
             !.callbacks = Append(beat_callbacks,
                 [id |-> command.cb,
                  next_timestamp |->
                      start_timestamp(command.start_beat, musical_time.beats),
                  start_beat |-> command.start_beat,
                  scheduled_at |-> musical_time.beats])]

ApplyRequestInspection(command) ==
    IF command.rx \in DOMAIN inspection_rx
    THEN [Applied(top_level_graph, FALSE, "none") EXCEPT !.replied = TRUE]
    ELSE Panicked

\* A ScheduleChanges that reaches the Graph with no time.
ApplyScheduleChangesImmediately(command) ==
    LET r == GraphScheduleChanges(top_level_graph, command.changes,
                                  Immediately)
    IN  Applied(r.graph, FALSE, r.err)

\* Command::ScheduleChange and Command::ScheduleChanges: handed to the
\* Graph with their time; an error goes to the error handler.
ApplyScheduleChanges(command) ==
    LET r == GraphScheduleChanges(top_level_graph, command.changes,
                                  command.start_time)
    IN  Applied(r.graph, FALSE, r.err)

\* Command::ResourcesCommand: resources_sender.push; PushError::Full gives
\* the command back and it goes onto command_queue, with Ok(()).
ApplyResourcesCommand(command) ==
    IF Len(resources_sender) < MaxRing
    THEN [Applied(top_level_graph, FALSE, "none") EXCEPT
             !.ring = Append(resources_sender,
                             [from |-> command.from, n |-> command.n])]
    ELSE Deferring(command)

apply_command(command, answer) ==
    CASE command.type = "Push" -> ApplyPush(command)
      [] command.type = "Connect" -> ApplyConnect(command, answer)
      [] command.type = "Disconnect" -> ApplyDisconnect(command, answer)
      [] command.type = "FreeNode" -> ApplyFreeNode(command, answer)
      [] command.type = "FreeNodeMendConnections" ->
            ApplyFreeNodeMendConnections(command, answer)
      [] command.type = "ScheduleBeatCallback" ->
            ApplyScheduleBeatCallback(command)
      [] command.type = "RequestInspection" ->
            ApplyRequestInspection(command)
      [] command.type \in {"ScheduleChange", "ScheduleChanges"} ->
            ApplyScheduleChanges(command)
      [] command.type = "ResourcesCommand" ->
            ApplyResourcesCommand(command)
      [] OTHER -> Applied(top_level_graph, FALSE, "none")

\* The older controller (src/src/controller.rs). A NodeAddress is resolved
\* (to_raw() is Some) once the Graph has pushed its node.
Resolved(node) == node \in top_level_graph.pushed

\* Command::Push of the older controller: no start time.
LegacyApplyPush(command) ==
    LET r == GraphPush(top_level_graph, command.node, command.sub,
                       command.graph, Immediately)
    IN  Applied(r.graph, FALSE, r.err)

\* Command::FreeNode of the older controller: a resolved address is freed
\* and every error is reported; an unresolved one is put onto
\* command_queue as Command::FreeNode.
LegacyApplyFreeNode(command, answer) ==
    IF Resolved(command.node)
    THEN LET r == GraphFreeNode(top_level_graph, command.node, answer)
         IN  Applied(r.graph, FALSE, r.err)
    ELSE Deferring([command EXCEPT !.type = "FreeNode"])

\* Command::FreeNodeMendConnections of the older controller: an unresolved
\* address is put onto command_queue as Command::FreeNode.
LegacyApplyFreeNodeMendConnections(command, answer) ==
    IF Resolved(command.node)
    THEN LET r == GraphFreeNode(top_level_graph, command.node, answer)
         IN  Applied(r.graph, FALSE, r.err)
    ELSE Deferring([command EXCEPT !.type = "FreeNode"])

\* apply_command of the older controller; Connect, Disconnect and the
\* ResourcesCommand arm are the same code.
legacy_apply_command(command, answer) ==
    CASE command.type = "Push" -> LegacyApplyPush(command)
      [] command.type = "FreeNode" -> LegacyApplyFreeNode(command, answer)
      [] command.type = "FreeNodeMendConnections" ->
            LegacyApplyFreeNodeMendConnections(command, answer)
      [] OTHER -> apply_command(command, answer)

\* A queue that keeps only the command deferred last.
EnqueueLatest(queue, r) ==
    IF r.deferred = <<>> THEN queue
    ELSE [k \in 1..Len(r.deferred) |-> <<Len(applied), r.deferred[k]>>]

\* command_queue after an apply: what apply_command pushed is at its end,
\* with the moment of the push.
Enqueue(queue, r) ==
    queue \o [k \in 1..Len(r.deferred) |-> <<Len(applied), r.deferred[k]>>]

\* A receive that takes the newest command instead of the oldest.
try_recv_newest == [command |-> Last(channel), rest |-> Front(channel)]

\* self.command_receiver.try_recv(): the oldest command in the channel.
try_recv == [command |-> Head(channel), rest |-> Tail(channel)]

\* The outcome of an apply, as kept in the history.
Outcome(r) ==
    IF r.panic THEN "panic"
    ELSE IF r.queued THEN "queued"
    ELSE IF r.err # "none" THEN "error" ELSE "ok"

\* get_knyst_commands: a facade with the top-level graph selected and no
\* bundle.
get_knyst_commands(c) ==
    /\ selected_graph_remote_graph' =
          [selected_graph_remote_graph EXCEPT ![c] = TopLevelGraphId]
    /\ bundle_changes' = [bundle_changes EXCEPT ![c] = FALSE]
    /\ changes_bundle' = [changes_bundle EXCEPT ![c] = <<>>]
    /\ changes_bundle_time' = [changes_bundle_time EXCEPT ![c] = Immediately]

\* run, first part: run_callbacks reads the musical time and makes a fresh
\* facade; with a time it walks beat_callbacks from the last index down.
CtlRun ==
    /\ ctl_pc = "run"
    /\ get_knyst_commands(CallbackFacade)
    /\ current_time_beats' = musical_time
    /\ cb_i' = IF musical_time.some THEN Len(beat_callbacks) ELSE 0
    /\ recv_i' = 0
    /\ ctl_pc' = IF musical_time.some /\ beat_callbacks # <<>>
                 THEN "callbacks" ELSE "receive"
    /\ last_pass' = Pass(musical_time,
                         {h \in DOMAIN free_flag : free_flag[h]},
                         beat_callbacks, Len(fired),
                         ~(musical_time.some /\ beat_callbacks # <<>>))
    /\ UNCHANGED <<LOCAL_GRAPH, scope, idVars, channel,
                   outVars, top_level_graph, command_queue,
                   beat_callbacks, error_log, all_commands_received,
                   fixedVars, musical_time, free_flag,
                   handles, fired, histVars>>

\* A thread that calls run once and ends.
CtlMaintenanceOnce ==
    /\ ctl_pc = "maintenance"
    /\ ctl_pc' = "returned"
    /\ UNCHANGED <<facadeVars, LOCAL_GRAPH, scope, idVars, channel,
                   outVars, top_level_graph, command_queue, beat_callbacks, error_log,
                   recv_i, cb_i, current_time_beats, all_commands_received,
                   fixedVars, cbVars, histVars>>

\* A loop that goes on until the channel is empty.
MaxNeverReached(i) == FALSE

\* if i >= max_commands { return false; }
MaxReached(i) == i >= max_commands_before_update

\* receive_and_apply_commands(max_commands), one turn of its loop:
\* try_recv, apply_command, i += 1, return false when i >= max_commands;
\* return true when the channel is empty.
ReceiveAndApply(legacy) ==
    /\ ctl_pc = "receive"
    /\ IF channel = <<>>
       THEN /\ all_commands_received' = TRUE
            /\ ctl_pc' = "maintenance"
            /\ recv_i' = 0
            /\ UNCHANGED <<channel, outVars, top_level_graph,
                           command_queue, beat_callbacks, error_log, applied>>
       ELSE \E answer \in AnswersOf(try_recv.command.type \in GraphCalls) :
            LET command == try_recv.command
                r == IF legacy THEN legacy_apply_command(command, answer)
                     ELSE apply_command(command, answer)
            IN  /\ channel' = try_recv.rest
                /\ top_level_graph' = r.graph
                /\ command_queue' = Enqueue(command_queue, r)
                /\ error_log' =
                      IF r.err # "none"
                      THEN Append(error_log,
                                  [err |-> r.err, from |-> command.from,
                                   n |-> command.n])
                      ELSE error_log
                /\ beat_callbacks' = r.callbacks
                /\ inspection_rx' =
                      IF r.replied
                      THEN [inspection_rx EXCEPT ![command.rx] = @ + 1]
                      ELSE inspection_rx
                /\ resources_sender' = r.ring
                /\ UNCHANGED <<resources, output>>
                /\ applied' = Append(applied,
                      [type |-> command.type, from |-> command.from,
                       n |-> command.n, node |-> command.node,
                       valid |-> command.valid, outcome |-> Outcome(r),
                       start_beat |-> command.start_beat,
                       current_beats |-> musical_time,
                       next_timestamp |->
                           IF Len(r.callbacks) > Len(beat_callbacks)
                           THEN Last(r.callbacks).next_timestamp
                           ELSE 0])
                /\ IF r.panic
                   THEN /\ ctl_pc' = "panicked"
                        /\ recv_i' = recv_i + 1
                        /\ UNCHANGED all_commands_received
                   ELSE IF MaxReached(recv_i + 1)
                   THEN /\ ctl_pc' = "maintenance"
                        /\ recv_i' = 0
                        /\ all_commands_received' = FALSE
                   ELSE /\ ctl_pc' = "receive"
                        /\ recv_i' = recv_i + 1
                        /\ UNCHANGED all_commands_received
    /\ UNCHANGED <<facadeVars, LOCAL_GRAPH, scope, idVars, cb_i,
                   current_time_beats, fixedVars, cbVars,
                   sent, sent_count, returned_ids, ops, calls, last_call>>

\* run_maintenance: Graph::update() and the drain of the resources replies;
\* run then returns all_commands_received and the thread loop calls it again.
CtlMaintenance ==
    /\ ctl_pc = "maintenance"
    /\ ctl_pc' = "run"
    /\ UNCHANGED <<facadeVars, LOCAL_GRAPH, scope, idVars, channel,
                   outVars, top_level_graph, command_queue, beat_callbacks, error_log,
                   recv_i, cb_i, current_time_beats, all_commands_received,
                   fixedVars, cbVars, histVars>>

CtlReceive == ReceiveAndApply(FALSE)

Controller == CtlRun \/ CtlReceive \/ CtlMaintenance

\* The older controller: run is receive_and_apply_commands and
\* run_maintenance; it has no beat callbacks.
LegacyCtlRun == beat_callbacks = <<>> /\ CtlRun

LegacyCtlReceive == ReceiveAndApply(TRUE)

LegacyController == LegacyCtlRun \/ LegacyCtlReceive \/ CtlMaintenance

\* --------------------------------------------------------------- resources
\* insert_buffer (and remove_ / replace_buffer, and the wavetable calls):
\* the ResourcesCommand is wrapped in a Command and sent.
insert_buffer(c) == Send(c, BaseCommand("ResourcesCommand", c))

ClientInsertBuffer(c) ==
    /\ insert_buffer(c)
    /\ Called(c, <<"insert_buffer", sent_count[c] + 1>>)
    /\ UNCHANGED <<facadeVars, LOCAL_GRAPH, scope, idVars, outVars, ctlVars,
                   cbVars, applied, returned_ids, last_call>>

\* The audio thread takes the oldest ResourcesCommand out of the ring and
\* applies it to its Resources: space is free again.
AudioTakesResources ==
    /\ resources_sender # <<>>
    /\ resources' = Append(resources, Head(resources_sender))
    /\ resources_sender' = Tail(resources_sender)
    /\ UNCHANGED <<facadeVars, LOCAL_GRAPH, scope, idVars, channel,
                   inspection_rx, output, ctlVars, cbVars, histVars>>

\* ----------------------------------------------------------------- offline
\* The offline run of the test: the thread that made the calls runs the
\* Controller until it has received everything, then the Graph processes
\* one block of BlockSize samples.
BlockSize == MaxTime + 1

ProcessBlockCall(c) ==
    /\ scope[c] = <<>>
    /\ Called(c, <<"process_block", 0>>)
    /\ UNCHANGED <<facadeVars, LOCAL_GRAPH, scope, idVars, channel, outVars,
                   ctlVars, cbVars, applied, sent, sent_count, returned_ids,
                   last_call>>

InProcessBlock(c) ==
    calls[c] # <<>> /\ Last(calls[c])[1] = "process_block"

ProcessBlock(c) ==
    /\ InProcessBlock(c)
    /\ output = <<>>
    /\ ctl_pc = "run"
    /\ all_commands_received
    /\ output' = [s \in 1..BlockSize |-> AudioAt(top_level_graph, s - 1)]
    /\ UNCHANGED <<facadeVars, LOCAL_GRAPH, scope, idVars, channel,
                   inspection_rx, resources_sender, resources, ctlVars,
                   cbVars, histVars>>

\* ---------------------------------------------------------- beat callbacks
\* schedule_beat_callback: BeatCallback::new makes the free flag (false),
\* the handle shares it, the command goes to the channel.
schedule_beat_callback(c, start_beat) ==
    /\ free_flag' = Append(free_flag, FALSE)
    /\ handles' = handles \cup {Len(free_flag) + 1}
    /\ Send(c, [BaseCommand("ScheduleBeatCallback", c) EXCEPT
                   !.cb = Len(free_flag) + 1, !.start_beat = start_beat])

StartBeats ==
    {[kind |-> "Absolute", beats |-> b] : b \in {0, MaxBeat + LookAhead}}
        \cup {[kind |-> "Multiple", beats |-> m] : m \in {2}}

ClientScheduleBeatCallback(c) ==
    /\ \E start_beat \in StartBeats :
          /\ schedule_beat_callback(c, start_beat)
          /\ Called(c, <<"schedule_beat_callback", start_beat>>)
    /\ UNCHANGED <<facadeVars, LOCAL_GRAPH, scope, idVars, outVars,
                   ctlVars, musical_time, fired, last_pass, applied,
                   returned_ids, last_call>>

\* CallbackHandle::free(self): one SeqCst store; the handle is consumed.
free(h) ==
    /\ free_flag' = [free_flag EXCEPT ![h] = TRUE]
    /\ handles' = handles \ {h}

ClientFree(c) ==
    /\ \E h \in handles :
          /\ free(h)
          /\ Called(c, <<"free", h>>)
    /\ UNCHANGED <<facadeVars, LOCAL_GRAPH, scope, idVars, channel,
                   outVars, ctlVars, musical_time, fired, last_pass,
                   applied, sent, sent_count, returned_ids, last_call>>

\* The Graph gets its clock: get_current_time_musical() turns from None to
\* Some, and from then on the musical time only grows.
GraphStarts ==
    /\ ~musical_time.some
    /\ musical_time' = Some(0)
    /\ UNCHANGED <<facadeVars, LOCAL_GRAPH, scope, idVars, channel,
                   outVars, ctlVars, free_flag, handles, fired,
                   last_pass, histVars>>

GraphClockAdvances ==
    /\ musical_time.some
    /\ musical_time.beats < MaxBeat
    /\ musical_time' = Some(musical_time.beats + 1)
    /\ UNCHANGED <<facadeVars, LOCAL_GRAPH, scope, idVars, channel,
                   outVars, ctlVars, free_flag, handles, fired,
                   last_pass, histVars>>

\* A look-ahead that takes every callback as due.
DueAlways(c, current) == TRUE

\* The condition of run_callbacks on one callback: its time has passed, or
\* it is less than the look-ahead away.
Due(c, current) ==
    \/ c.next_timestamp < current
    \/ c.next_timestamp - current < LookAhead

\* A loop that walks the list upwards from where it is after a removal:
\* the entry below the removed one is passed over.
NextCallbackSkipping(list) ==
    LET i == IF Len(list) < Len(beat_callbacks) /\ cb_i > 1
             THEN cb_i - 2 ELSE cb_i - 1
    IN  /\ beat_callbacks' = list
        /\ cb_i' = i
        /\ ctl_pc' = IF i = 0 THEN "receive" ELSE "callbacks"
        /\ last_pass' = IF i = 0
                        THEN [last_pass EXCEPT !.after = list, !.done = TRUE]
                        ELSE last_pass

\* The end of one turn of the loop of run_callbacks: i -= 1, and with i = 0
\* the pass is over and run goes on to receive_and_apply_commands.
NextCallback(list) ==
    /\ beat_callbacks' = list
    /\ cb_i' = cb_i - 1
    /\ ctl_pc' = IF cb_i = 1 THEN "receive" ELSE "callbacks"
    /\ last_pass' = IF cb_i = 1
                    THEN [last_pass EXCEPT !.after = list, !.done = TRUE]
                    ELSE last_pass

\* run_callbacks, one callback: the due test and, for a due callback, the
\* load of the free flag in run_callback; a set flag is CallbackResult::Delete.
CtlCallbackCheck ==
    /\ ctl_pc = "callbacks"
    /\ LET c == beat_callbacks[cb_i]
       IN  IF ~Due(c, current_time_beats.beats)
           THEN NextCallback(beat_callbacks)
           ELSE IF free_flag[c.id]
           THEN NextCallback(RemoveAt(beat_callbacks, cb_i))
           ELSE /\ ctl_pc' = "invoke"
                /\ UNCHANGED <<beat_callbacks, cb_i, last_pass>>
    /\ UNCHANGED <<facadeVars, LOCAL_GRAPH, scope, idVars, channel,
                   outVars, top_level_graph, command_queue, error_log,
                   recv_i, current_time_beats, all_commands_received,
                   fixedVars, musical_time, free_flag,
                   handles, fired, histVars>>

\* The state of a facade.
Handle(c) ==
    [selected_graph_remote_graph |-> selected_graph_remote_graph[c],
     bundle_changes |-> bundle_changes[c],
     changes_bundle |-> changes_bundle[c],
     changes_bundle_time |-> changes_bundle_time[c]]

\* history: one invocation of user_fn, by the callback, the timestamp it
\* was given, the free flag at that moment, what it returned, the commands
\* it sent (the first, and how many), the number of commands the
\* Controller had received by then, and the state of the facade it is given
Invocation(c, result, first_sent, emitted, received) ==
    [id |-> c.id, timestamp |-> c.next_timestamp, freed |-> free_flag[c.id],
     result |-> result, first_sent |-> first_sent, emitted |-> emitted,
     received |-> received, handle |-> Handle(CallbackFacade)]

\* A callback whose next time is counted from the musical time of the pass.
ContinueFromNow(list, i, time_to_next) ==
    [list EXCEPT ![i].next_timestamp = current_time_beats.beats + time_to_next]

\* Some(time_to_next): self.next_timestamp += time_to_next.
Continue(list, i, time_to_next) ==
    [list EXCEPT ![i].next_timestamp = @ + time_to_next]

\* run_callback, after the flag was read as false: user_fn is called with
\* next_timestamp; Some(time_to_next) moves next_timestamp on, None deletes.
\* This user_fn sends nothing.
CtlCallbackInvoke ==
    /\ ctl_pc = "invoke"
    /\ LET c == beat_callbacks[cb_i]
       IN  \E result \in {None, Some(MaxDelta)} :
              /\ fired' = Append(fired, Invocation(c, result, 0, 0, 0))
              /\ IF result.some
                 THEN NextCallback(Continue(beat_callbacks, cb_i,
                                            result.beats))
                 ELSE NextCallback(RemoveAt(beat_callbacks, cb_i))
    /\ UNCHANGED <<facadeVars, LOCAL_GRAPH, scope, idVars, channel,
                   outVars, top_level_graph, command_queue, error_log,
                   recv_i, current_time_beats, all_commands_received,
                   fixedVars, musical_time, free_flag,
                   handles, histVars>>

\* run_callback with a user_fn that returns Some(0): next_timestamp stays.
CtlCallbackReturnsZero ==
    /\ ctl_pc = "invoke"
    /\ Len(fired) < MaxFired
    /\ LET c == beat_callbacks[cb_i]
       IN  /\ fired' = Append(fired, Invocation(c, Some(0), 0, 0, 0))
           /\ NextCallback(Continue(beat_callbacks, cb_i, 0))
    /\ UNCHANGED <<facadeVars, LOCAL_GRAPH, scope, idVars, channel,
                   outVars, top_level_graph, command_queue, error_log,
                   recv_i, current_time_beats, all_commands_received,
                   fixedVars, musical_time, free_flag,
                   handles, histVars>>

\* run_callback with a user_fn that starts a scheduling bundle on its
\* facade and does not upload it, or selects another graph on it.
CtlCallbackUsesHandle ==
    /\ ctl_pc = "invoke"
    /\ LET c == beat_callbacks[cb_i]
       IN  \E result \in {None, Some(MaxDelta)} :
              /\ fired' = Append(fired, Invocation(c, result, 0, 0, 0))
              /\ \/ /\ start_scheduling_bundle(CallbackFacade, MaxTime)
                    /\ UNCHANGED selected_graph_remote_graph
                 \/ /\ to_graph(CallbackFacade, TopLevelGraphId + 1)
                    /\ UNCHANGED <<bundle_changes, changes_bundle,
                                   changes_bundle_time>>
              /\ IF result.some
                 THEN NextCallback(Continue(beat_callbacks, cb_i,
                                            result.beats))
                 ELSE NextCallback(RemoveAt(beat_callbacks, cb_i))
    /\ UNCHANGED <<LOCAL_GRAPH, scope, idVars, channel,
                   outVars, top_level_graph, command_queue, error_log,
                   recv_i, current_time_beats, all_commands_received,
                   fixedVars, musical_time, free_flag,
                   handles, histVars>>

\* The commands a user_fn sends when it pushes `emitted` generators through
\* the facade it is given: that facade is fresh from get_knyst_commands
\* (the top-level graph selected, no bundle open) and the Controller's
\* thread has no local graph, so each push is one Command::Push.
CallbackPushes(emitted) ==
    [j \in 1..emitted |->
        [BaseCommand("Push", CallbackFacade) EXCEPT
            !.n = sent_count[CallbackFacade] + j,
            !.node = next_node_id + j - 1,
            !.graph = TopLevelGraphId]]

\* run_callback with a user_fn that pushes through its facade before it
\* returns.
CtlCallbackSends ==
    /\ ctl_pc = "invoke"
    /\ LET c == beat_callbacks[cb_i]
       IN  \E result \in {None, Some(MaxDelta)}, emitted \in 1..MaxEmitted :
              /\ fired' = Append(fired,
                     Invocation(c, result, Len(sent) + 1, emitted,
                                Len(applied)))
              /\ channel' = channel \o CallbackPushes(emitted)
              /\ sent' = sent \o CallbackPushes(emitted)
              /\ sent_count' = [sent_count EXCEPT
                                   ![CallbackFacade] = @ + emitted]
              /\ next_node_id' = next_node_id + emitted
              /\ returned_ids' = returned_ids \cup
                     {[id |-> next_node_id + j - 1,
                       graph |-> TopLevelGraphId] : j \in 1..emitted}
              /\ IF result.some
                 THEN NextCallback(Continue(beat_callbacks, cb_i,
                                            result.beats))
                 ELSE NextCallback(RemoveAt(beat_callbacks, cb_i))
    /\ UNCHANGED <<facadeVars, LOCAL_GRAPH, scope, next_graph_id, outVars,
                   top_level_graph, command_queue, error_log, recv_i,
                   current_time_beats, all_commands_received,
                   fixedVars, musical_time, free_flag,
                   handles, applied, ops, calls, last_call>>

\* ------------------------------------------------------------ unit steps
\* Superseconds are counted in subsample units; one sample
\* (Superseconds::from_samples(1, sample_rate)) is this many of them.
one_sample == 2

\* The counter of the search for the next multiple is an unsigned integer
\* of CounterBits bits.
CounterLimit == 2 ^ CounterBits

\* while beats * i < current_beats { i += 1 }, one turn. An i += 1 that
\* overflows panics in a build with overflow checks and wraps to 0 in one
\* without.
MultipleLoopTurn ==
    /\ multiple_loop.pc = "loop"
    /\ multiple_loop.beats * multiple_loop.i < multiple_loop.current_beats
    /\ IF multiple_loop.i + 1 < CounterLimit
       THEN multiple_loop' = [multiple_loop EXCEPT !.i = @ + 1]
       ELSE \/ multiple_loop' = [multiple_loop EXCEPT !.pc = "panicked"]
            \/ multiple_loop' = [multiple_loop EXCEPT !.i = 0]
    /\ UNCHANGED <<facadeVars, LOCAL_GRAPH, scope, idVars, channel, outVars,
                   top_level_graph, command_queue, beat_callbacks, error_log,
                   ctl_pc, recv_i, cb_i, current_time_beats,
                   all_commands_received, max_commands_before_update,
                   interval_trig, once_trig, cbVars, histVars>>

\* The loop is left: the start timestamp is beats * i.
MultipleLoopExit ==
    /\ multiple_loop.pc = "loop"
    /\ ~(multiple_loop.beats * multiple_loop.i < multiple_loop.current_beats)
    /\ multiple_loop' = [multiple_loop EXCEPT !.pc = "done"]
    /\ UNCHANGED <<facadeVars, LOCAL_GRAPH, scope, idVars, channel, outVars,
                   top_level_graph, command_queue, beat_callbacks, error_log,
                   ctl_pc, recv_i, cb_i, current_time_beats,
                   all_commands_received, max_commands_before_update,
                   interval_trig, once_trig, cbVars, histVars>>

\* An IntervalTrig that compares before it adds the sample.
ProcessSampleAddingLast(counter, interval) ==
    IF counter >= interval
    THEN [counter |-> counter - interval + one_sample, out |-> 1]
    ELSE [counter |-> counter + one_sample, out |-> 0]

\* IntervalTrig::process, one sample: the counter takes one sample first;
\* at or beyond the interval it keeps what is over and the output is 1.0.
ProcessSample(counter, interval) ==
    LET added == counter + one_sample
    IN  IF added >= interval
        THEN [counter |-> added - interval, out |-> 1]
        ELSE [counter |-> added, out |-> 0]

\* The loop of IntervalTrig::process over the samples of one block.
RECURSIVE ProcessSamples(_, _, _)
ProcessSamples(counter, interval, samples) ==
    IF samples = 0
    THEN [counter |-> counter, out |-> <<>>]
    ELSE LET first == ProcessSample(counter, interval)
             rest == ProcessSamples(first.counter, interval, samples - 1)
         IN  [counter |-> rest.counter, out |-> <<first.out>> \o rest.out]

\* IntervalTrig::process: one block.
IntervalTrigProcess ==
    /\ Len(interval_trig.blocks) < MaxBlocks
    /\ LET r == ProcessSamples(interval_trig.counter, interval_trig.interval,
                               interval_trig.block_size)
       IN  interval_trig' = [interval_trig EXCEPT
                                !.counter = r.counter,
                                !.blocks = Append(@, r.out)]
    /\ UNCHANGED <<facadeVars, LOCAL_GRAPH, scope, idVars, channel, outVars,
                   top_level_graph, command_queue, beat_callbacks, error_log,
                   ctl_pc, recv_i, cb_i, current_time_beats,
                   all_commands_received, max_commands_before_update,
                   multiple_loop, once_trig, cbVars, histVars>>

\* IntervalTrig::init: the counter is zero again; the blocks are counted
\* from here.
IntervalTrigInit ==
    /\ interval_trig.blocks # <<>>
    /\ interval_trig' = NewIntervalTrig(interval_trig.interval,
                                        interval_trig.block_size)
    /\ UNCHANGED <<facadeVars, LOCAL_GRAPH, scope, idVars, channel, outVars,
                   top_level_graph, command_queue, beat_callbacks, error_log,
                   ctl_pc, recv_i, cb_i, current_time_beats,
                   all_commands_received, max_commands_before_update,
                   multiple_loop, once_trig, cbVars, histVars>>

\* An OnceTrig that does not note that it has triggered.
OnceTrigBlockForgetting(triggered, size) ==
    [triggered |-> FALSE, out |-> [k \in 1..size |-> IF k = 1 THEN 1 ELSE 0]]

\* OnceTrig::process on a block of `size` samples: zeros when it has
\* triggered; otherwise out[0] = 1.0, the flag is set, the rest is zeros.
OnceTrigBlock(triggered, size) ==
    IF triggered
    THEN [triggered |-> TRUE, out |-> [k \in 1..size |-> 0]]
    ELSE [triggered |-> TRUE,
          out |-> [k \in 1..size |-> IF k = 1 THEN 1 ELSE 0]]

\* OnceTrig::process: one block; it returns GenState::FreeSelf.
OnceTrigProcess ==
    /\ Len(once_trig.blocks) < MaxBlocks
    /\ \E size \in 1..MaxBlock :
          LET r == OnceTrigBlock(once_trig.triggered, size)
          IN  once_trig' = [triggered |-> r.triggered,
                            blocks |-> Append(once_trig.blocks, r.out),
                            returned |-> Append(once_trig.returned,
                                                "FreeSelf")]
    /\ UNCHANGED <<facadeVars, LOCAL_GRAPH, scope, idVars, channel, outVars,
                   top_level_graph, command_queue, beat_callbacks, error_log,
                   ctl_pc, recv_i, cb_i, current_time_beats,
                   all_commands_received, max_commands_before_update,
                   multiple_loop, interval_trig, cbVars, histVars>>

\* ---------------------------------------------------------- specifications
\* The command bus: clients pushing, connecting, building local graphs and
\* asking for inspections, against the running Controller.
Next ==
    \/ \E c \in Clients :
          /\ ops < MaxOps
          /\ \/ ClientPush(c)
             \/ ClientConnect(c)
             \/ ClientInitLocalGraph(c)
             \/ ClientUploadLocalGraph(c)
    \/ Controller

Spec == Init /\ [][Next]_vars

\* Inspection requests, with receivers that get dropped.
NextInspection ==
    \/ \E c \in Clients :
          /\ ops < MaxOps
          /\ \/ ClientPush(c)
             \/ ClientRequestInspection(c)
    \/ (ops < MaxOps /\ DropReceiver)
    \/ Controller

SpecInspection == Init /\ [][NextInspection]_vars

\* One thread's facade, its scoped calls and its local graphs; what reaches
\* the channel stays there.
NextBundle ==
    \E c \in {1} :
        /\ ops < MaxBundleOps
        /\ \/ ClientPush(c)
           \/ ClientScheduleChange(c)
           \/ ScheduleBundleCall(c)
           \/ ScheduleBundleReturn(c)
           \/ UploadGraphCall(c)
           \/ UploadGraphReturn(c)
           \/ ClosurePanics(c)

SpecBundle == Init /\ [][NextBundle]_vars

\* Beat callbacks: a thread that schedules and frees callbacks, the Graph's
\* clock, and the Controller running the callbacks.
NextCallbacks ==
    \/ \E c \in {1} :
          /\ ops < MaxCallbackOps
          /\ \/ ClientScheduleBeatCallback(c)
             \/ ClientFree(c)
    \/ GraphStarts
    \/ GraphClockAdvances
    \/ Controller
    \/ CtlCallbackCheck
    \/ CtlCallbackInvoke

SpecCallbacks == Init /\ [][NextCallbacks]_vars

\* One run_callbacks pass over callbacks that end, go on and stay where
\* they are in time.
NextCallbackPass ==
    \/ \E c \in {1} :
          /\ ops < MaxCallbackOps
          /\ ClientScheduleBeatCallback(c)
    \/ GraphStarts
    \/ GraphClockAdvances
    \/ Controller
    \/ CtlCallbackCheck
    \/ Len(fired) < MaxFired /\ CtlCallbackInvoke
    \/ CtlCallbackReturnsZero

SpecCallbackPass == Init /\ [][NextCallbackPass]_vars

\* Callbacks that leave the facade they are handed in another state.
NextCallbackHandles ==
    \/ \E c \in {1} :
          /\ ops < MaxCallbackOps
          /\ ClientScheduleBeatCallback(c)
    \/ GraphStarts
    \/ Controller
    \/ CtlCallbackCheck
    \/ CtlCallbackUsesHandle

SpecCallbackHandles == Init /\ [][NextCallbackHandles]_vars

\* Resources: a thread sending ResourcesCommands, the Controller, and the
\* audio thread emptying the ring.
NextResources ==
    \/ \E c \in {1} :
          /\ ops < MaxResourceOps
          /\ ClientInsertBuffer(c)
    \/ AudioTakesResources
    \/ Controller

SpecResources == Init /\ [][NextResources]_vars

\* The offline test: bundles of pushes and changes on one thread, then one
\* processed block.
NextOffline ==
    \E c \in {1} :
        \/ /\ ops < MaxOfflineOps
           /\ ~InProcessBlock(c)
           /\ \/ ClientPush(c)
              \/ ClientScheduleChange(c)
              \/ (scope[c] = <<>> /\ ScheduleBundleCall(c))
              \/ ScheduleBundleReturn(c)
              \/ ProcessBlockCall(c)
        \/ (InProcessBlock(c) /\ output = <<>> /\ Controller)
        \/ ProcessBlock(c)

SpecOffline == Init /\ [][NextOffline]_vars

\* Pushes of all kinds from two threads, with local graphs, against the
\* running Controller.
NextPush ==
    \/ \E c \in Clients :
          /\ ops < MaxOps
          /\ \/ ClientPush(c)
             \/ ClientPushToGraph(c)
             \/ ClientInitLocalGraph(c)
             \/ ClientUploadLocalGraph(c)
    \/ Controller

SpecPush == Init /\ [][NextPush]_vars

\* Routing of the graph calls of one thread's facade; what reaches the
\* channel stays there.
NextRouting ==
    \E c \in {1} :
        /\ ops < MaxRoutingOps
        /\ \/ ClientPush(c)
           \/ ClientPushToGraph(c)
           \/ ClientConnectAny(c)
           \/ ClientDisconnect(c)
           \/ ClientFreeNode(c)
           \/ ClientInitLocalGraph(c)
           \/ ClientUploadLocalGraph(c)
           \/ ClientToGraph(c)
           \/ ClientStartSchedulingBundle(c)
           \/ ClientUploadSchedulingBundle(c)

SpecRouting == Init /\ [][NextRouting]_vars

\* Routing of the parameter changes of one thread's facade.
NextChanges ==
    \E c \in {1} :
        /\ ops < MaxChangeOps
        /\ \/ ClientPush(c)
           \/ ClientScheduleChangeAny(c)
           \/ ClientScheduleChanges(c)
           \/ ClientStartSchedulingBundle(c)
           \/ ClientUploadSchedulingBundle(c)
           \/ ClientInitLocalGraph(c)

SpecChanges == Init /\ [][NextChanges]_vars

\* Beat callbacks that push through their facade, with a thread that also
\* pushes, against the Controller.
NextCallbackCommands ==
    \/ \E c \in {1} :
          /\ ops < MaxCallbackOps
          /\ \/ ClientScheduleBeatCallback(c)
             \/ ClientPush(c)
    \/ GraphStarts
    \/ Controller
    \/ CtlCallbackCheck
    \/ CtlCallbackSends

SpecCallbackCommands == Init /\ [][NextCallbackCommands]_vars

\* Connections, disconnections and frees of one thread against the
\* Controller, with nodes that are and are not pushed yet.
NextDeferred ==
    \/ \E c \in {1} :
          /\ ops < MaxDeferOps
          /\ \/ ClientPush(c)
             \/ ClientConnectAny(c)
             \/ ClientDisconnect(c)
             \/ ClientFreeNode(c)
    \/ Controller

SpecDeferred == Init /\ [][NextDeferred]_vars

\* The same thread against the older controller.
NextLegacy ==
    \/ \E c \in {1} :
          /\ ops < MaxDeferOps
          /\ \/ ClientPush(c)
             \/ ClientDisconnect(c)
             \/ ClientFreeNode(c)
    \/ LegacyController

SpecLegacy == Init /\ [][NextLegacy]_vars

\* A thread that uploads local graphs it has not made, with a bundle open
\* and a graph selected.
NextMisuse ==
    \E c \in {1} :
        /\ ops < MaxMisuseOps
        /\ \/ ClientUploadLocalGraph(c)
           \/ ClientInitLocalGraph(c)
           \/ ClientToGraph(c)
           \/ ClientStartSchedulingBundle(c)
           \/ ClientScheduleChangeAny(c)

SpecMisuse == Init /\ [][NextMisuse]_vars

\* Nested local graphs of one thread's facade.
NextLocalGraphs ==
    \E c \in {1} :
        /\ ops < MaxLocalOps
        /\ \/ ClientInitNestedLocalGraph(c)
           \/ ClientUploadLocalGraph(c)
           \/ ClientPush(c)
           \/ ClientToGraph(c)

SpecLocalGraphs == Init /\ [][NextLocalGraphs]_vars

\* Threads that send while the Controller runs.
NextDelivery ==
    \/ \E c \in Clients :
          /\ ops < MaxSendOps
          /\ \/ ClientPush(c)
             \/ ClientDisconnect(c)
    \/ Controller

SpecDelivery == Init /\ [][NextDelivery]_vars

FairSpecDelivery == SpecDelivery /\ WF_vars(Controller)

\* The search for the next multiple, for every beats and current beats.
InitMultiple ==
    /\ InitBus
    /\ multiple_loop \in {NewMultipleLoop(m, c) :
                              m \in 0..MaxMultiple, c \in 0..MaxCurrent}
    /\ interval_trig = NewIntervalTrig(1, 1)
    /\ once_trig = NewOnceTrig

NextMultiple == MultipleLoopTurn \/ MultipleLoopExit

SpecMultiple == InitMultiple /\ [][NextMultiple]_vars

FairSpecMultiple == SpecMultiple /\ WF_vars(NextMultiple)

\* An IntervalTrig fed a constant interval, block after block.
InitIntervalTrig ==
    /\ InitBus
    /\ multiple_loop = NewMultipleLoop(1, 0)
    /\ interval_trig \in {NewIntervalTrig(interval, block_size) :
                              interval \in 0..MaxInterval,
                              block_size \in 1..MaxBlock}
    /\ once_trig = NewOnceTrig

NextIntervalTrig == IntervalTrigProcess \/ IntervalTrigInit

SpecIntervalTrig == InitIntervalTrig /\ [][NextIntervalTrig]_vars

\* An OnceTrig processing blocks of any sizes.
NextOnceTrig == OnceTrigProcess

SpecOnceTrig == Init /\ [][NextOnceTrig]_vars

\* start_on_new_thread: the Controller thread loops over run for ever.
FairSpec == Spec /\ WF_vars(Controller)

\* The same, with an audio thread that keeps taking what is in the ring.
FairSpecResources ==
    SpecResources /\ WF_vars(Controller) /\ WF_vars(AudioTakesResources)

\* ------------------------------------------------------------------ claims
ErrorsFor(c, n) == {k \in 1..Len(error_log) :
                       error_log[k].from = c /\ error_log[k].n = n}

\* C1: two commands sent by the same facade are handed to apply_command in
\* the order in which they were sent, whatever the other clients send in
\* between and whatever max_commands_before_update is.
C1_PerClientFifo ==
    \A i, j \in 1..Len(applied) :
        (i < j /\ applied[i].from = applied[j].from)
            => applied[i].n < applied[j].n

\* Two commands of one client applied, with a command of the other client
\* applied between them.
C1_Witness ==
    \E i, j, k \in 1..Len(applied) :
        /\ i < k /\ k < j
        /\ applied[i].from = applied[j].from
        /\ applied[k].from # applied[i].from

\* C2 (as claimed): a Connect that was put on command_queue because its
\* node was not pushed yet, and whose node has since been pushed, is
\* eventually made on the Graph or has exactly one error reported for it.
QueuedConnect(c, n) ==
    \E k \in 1..Len(command_queue) :
        /\ command_queue[k][2].type = "Connect"
        /\ command_queue[k][2].from = c
        /\ command_queue[k][2].n = n
        /\ command_queue[k][2].node \in top_level_graph.nodes

ConnectSettled(c, n) ==
    \/ Cardinality(ErrorsFor(c, n)) = 1
    \/ \E k \in 1..Len(sent) :
          /\ sent[k].from = c /\ sent[k].n = n
          /\ sent[k].node \in top_level_graph.edges

C2_DeferredConnectIsSettled ==
    \A c \in Clients, n \in 1..MaxOps :
        QueuedConnect(c, n) ~> ConnectSettled(c, n)

\* C3: a facade that sends Push for a node and, as its next command, a well
\* formed Connect of that node: both are applied without an error, the
\* Connect is not put aside, and the edge is on the Graph.
PushThenConnect(e) ==
    /\ e.type = "Connect" /\ e.valid
    /\ \E k \in 1..Len(sent) :
          /\ sent[k].type = "Push" /\ sent[k].from = e.from
          /\ sent[k].n = e.n - 1 /\ sent[k].node = e.node

C3_PushThenConnectSucceeds ==
    \A j \in 1..Len(applied) :
        PushThenConnect(applied[j]) =>
            /\ applied[j].outcome = "ok"
            /\ applied[j].node \in top_level_graph.edges
            /\ ErrorsFor(applied[j].from, applied[j].n) = {}
            /\ ErrorsFor(applied[j].from, applied[j].n - 1) = {}

\* Such a Connect has been applied while the Controller was part way
\* through the channel.
C3_Witness ==
    \E j \in 1..Len(applied) :
        /\ PushThenConnect(applied[j])
        /\ applied[j].node \in top_level_graph.edges
        /\ channel # <<>>

\* C7: a schedule_bundle(T, body) that starts with no local graph and no
\* bundle open, and whose body makes N pushes and M schedule_change calls
\* and nothing else, has put on the channel, when it returns, exactly the N
\* Command::Push of the body, each with start_time T, followed by exactly
\* one Command::ScheduleChanges with time T that holds the M changes in the
\* order of the calls; nothing else, so no change is sent before the upload.
Body(c) == SubSeq(calls[c], last_call[c].frame.first_call,
                  last_call[c].last_call)
Pick(s, name) == SelectSeq(s, LAMBDA x : x[1] = name)
SentBy(c) == SelectSeq(sent, LAMBDA x : x.from = c)
SentDuring(c) == SubSeq(SentBy(c), last_call[c].frame.first_sent,
                        last_call[c].last_sent)

PlainBundle(c) ==
    /\ last_call[c].kind = "schedule_bundle"
    /\ last_call[c].exit = "return"
    /\ ~last_call[c].frame.open
    /\ last_call[c].frame.depth = 0
    /\ \A k \in 1..Len(Body(c)) :
          Body(c)[k][1] \in {"push", "schedule_change"}

C7_BundleEmitsPushesAndOneChanges ==
    \A c \in Clients :
        PlainBundle(c) =>
            LET T == last_call[c].frame.time
                pushes == Pick(Body(c), "push")
                changes == Pick(Body(c), "schedule_change")
                cmds == SentDuring(c)
                N == Len(pushes)
            IN  /\ Len(cmds) = N + 1
                /\ \A k \in 1..N :
                      /\ cmds[k].type = "Push"
                      /\ cmds[k].node = pushes[k][2]
                      /\ cmds[k].start_time = T
                /\ cmds[N + 1].type = "ScheduleChanges"
                /\ cmds[N + 1].start_time = T
                /\ cmds[N + 1].changes =
                      [k \in 1..Len(changes) |-> changes[k][2]]

\* A bundle at a time other than Immediately with a push and two changes of
\* different values has returned.
C7_Witness ==
    \E c \in Clients :
        /\ PlainBundle(c)
        /\ last_call[c].frame.time # Immediately
        /\ Len(Pick(Body(c), "push")) >= 1
        /\ Len(Pick(Body(c), "schedule_change")) >= 2
        /\ Pick(Body(c), "schedule_change")[1][2].value #
               Pick(Body(c), "schedule_change")[2][2].value

\* C8 (as claimed): when a schedule_bundle or an upload_graph has been left,
\* by return or by a panic of its closure, the local-graph stack has the
\* depth it had before the call and, for schedule_bundle, the facade has
\* bundle_changes = false and an empty changes_bundle.
C8_ScopeReleasedOnEveryExit ==
    \A c \in Clients :
        last_call[c].kind # "none" =>
            /\ last_call[c].after.depth = last_call[c].frame.depth
            /\ last_call[c].kind = "schedule_bundle" =>
                  /\ ~last_call[c].after.bundle_changes
                  /\ last_call[c].after.changes_bundle = <<>>

\* C4 (as claimed): no RequestInspection makes apply_command panic, also
\* when the client has dropped the reply receiver; the Controller goes on.
C4_DroppedReceiverIsTolerated ==
    \A j \in 1..Len(applied) :
        applied[j].type = "RequestInspection" =>
            /\ applied[j].outcome # "panic"
            /\ j = Len(applied) => ctl_pc # "panicked"

\* C5 (as claimed): no ScheduleBeatCallback makes apply_command panic, also
\* when the Graph has no musical time; the Controller goes on.
C5_NoMusicalTimeIsTolerated ==
    \A j \in 1..Len(applied) :
        (applied[j].type = "ScheduleBeatCallback"
            /\ ~applied[j].current_beats.some) =>
                applied[j].outcome = "ok"

\* C6 (as claimed): a ScheduleBeatCallback with Multiple(m), m > 0, applied
\* at musical time c gets next_timestamp = m * ceil(c / m), for every c >= 0.
CeilMultiple(m, c) == m * ((c + m - 1) \div m)

C6_MultipleIsCeiling ==
    \A j \in 1..Len(applied) :
        (applied[j].type = "ScheduleBeatCallback"
            /\ applied[j].outcome = "ok"
            /\ applied[j].start_beat.kind = "Multiple") =>
                applied[j].next_timestamp =
                    CeilMultiple(applied[j].start_beat.beats,
                                 applied[j].current_beats.beats)

\* C9 (as claimed): user_fn is never invoked once free() has returned for
\* its callback.
C9_NoInvocationAfterFree ==
    \A k \in 1..Len(fired) : ~fired[k].freed

\* C10 (as claimed): a callback whose free flag is set when a run_callbacks
\* pass with a musical time begins is gone from beat_callbacks when the pass
\* ends, whatever its next_timestamp.
FreedBefore(k) ==
    /\ last_pass.done
    /\ last_pass.time.some
    /\ last_pass.before[k].id \in last_pass.freed
LeftAfter(k) ==
    \E j \in 1..Len(last_pass.after) :
        last_pass.after[j].id = last_pass.before[k].id
InvokedIn(k) ==
    \E j \in (last_pass.fired + 1)..Len(fired) :
        fired[j].id = last_pass.before[k].id

C10_FreedIsDeletedByNextPass ==
    \A k \in 1..Len(last_pass.before) : FreedBefore(k) => ~LeftAfter(k)

\* C10 (amended): a callback whose free flag is set when a run_callbacks pass
\* with musical time t begins is not invoked in the pass; the pass deletes
\* it if it is due (next_timestamp < t + 0.25 beats) and leaves it in
\* beat_callbacks, as it was, if it is not.
C10_FreedIsDeletedWhenDue ==
    \A k \in 1..Len(last_pass.before) :
        FreedBefore(k) =>
            /\ ~InvokedIn(k)
            /\ IF last_pass.before[k].next_timestamp
                      < last_pass.time.beats + LookAhead
               THEN ~LeftAfter(k)
               ELSE last_pass.before[k] \in SeqRange(last_pass.after)

\* A pass has deleted a freed callback that was due.
C10_Witness ==
    \E k \in 1..Len(last_pass.before) :
        /\ FreedBefore(k)
        /\ last_pass.before[k].next_timestamp
               < last_pass.time.beats + LookAhead
        /\ ~LeftAfter(k)

\* C11 (as claimed): a ResourcesCommand that was put onto command_queue
\* because the ring was full reaches the audio side once the audio thread has
\* made room, under a running Controller and with no further client command.
QueuedResource(c, n) ==
    \E k \in 1..Len(command_queue) :
        /\ command_queue[k][2].type = "ResourcesCommand"
        /\ command_queue[k][2].from = c
        /\ command_queue[k][2].n = n
OnAudioSide(c, n) ==
    \E k \in 1..Len(resources) : resources[k] = [from |-> c, n |-> n]

C11_QueuedResourceIsDelivered ==
    \A n \in 1..MaxResourceOps : QueuedResource(1, n) ~> OnAudioSide(1, n)

\* C12: in the offline run, the processed block shows at every sample s
\* exactly the nodes pushed with a time up to s (a node pushed in a bundle
\* with time T from sample T on, and at no sample before), each with the
\* value of the latest change made for it with a time up to s (a change
\* bundled with time T from sample T on, and at no sample before).
TimeOfCall(c, i) ==
    LET marks == {j \in 1..(i - 1) :
                     calls[c][j][1] \in {"schedule_bundle", "return"}}
    IN  IF marks = {} THEN Immediately
        ELSE LET j == CHOOSE m \in marks : \A o \in marks : o <= m
             IN  IF calls[c][j][1] = "schedule_bundle"
                 THEN calls[c][j][2] ELSE Immediately

CallsOf(c, name) == {i \in 1..Len(calls[c]) : calls[c][i][1] = name}

ExpectedParam(c, n, s) ==
    LET cs == {i \in CallsOf(c, "schedule_change") :
                  calls[c][i][2].node = n /\ TimeOfCall(c, i) <= s}
        after(a, b) ==
            \/ TimeOfCall(c, a) > TimeOfCall(c, b)
            \/ (TimeOfCall(c, a) = TimeOfCall(c, b) /\ a > b)
    IN  IF cs = {} THEN 0
        ELSE calls[c][CHOOSE a \in cs : \A b \in cs \ {a} : after(a, b)][2].value

ExpectedAt(c, s) ==
    {[node |-> calls[c][i][2],
      value |-> ExpectedParam(c, calls[c][i][2], s)] :
        i \in {k \in CallsOf(c, "push") : TimeOfCall(c, k) <= s}}

C12_BundleShowsExactlyAtItsSample ==
    output # <<>> =>
        \A s \in 0..(BlockSize - 1) : output[s + 1] = ExpectedAt(1, s)

\* A node pushed and changed in a bundle with a time T > 0 is not in the
\* output at sample T - 1 and is in it, with the bundled value, at sample T.
C12_Witness ==
    /\ output # <<>>
    /\ \E i \in CallsOf(1, "push"), j \in CallsOf(1, "schedule_change") :
          LET T == TimeOfCall(1, i)
              n == calls[1][i][2]
          IN  /\ T > 0
              /\ TimeOfCall(1, j) = T
              /\ calls[1][j][2].node = n
              /\ \A x \in output[T] : x.node # n
              /\ [node |-> n, value |-> calls[1][j][2].value] \in output[T + 1]

\* C13: every push / push_to_graph, on any thread and either path, returns a
\* NodeId no earlier call returned; no graph holds a NodeId twice and no two
\* graphs (the top-level Graph, the local graphs of the threads) hold the
\* same NodeId; a Command::Push that the Graph refuses is reported to the
\* error handler, and one it accepts has made the node.
PushCalls ==
    UNION {{<<c, i>> : i \in CallsOf(c, "push") \cup
                            CallsOf(c, "push_to_graph")} : c \in Clients}
ReturnedBy(x) ==
    IF calls[x[1]][x[2]][1] = "push"
    THEN calls[x[1]][x[2]][2]
    ELSE calls[x[1]][x[2]][2].node
LiveGraphs ==
    {<<0, 0>>} \cup
    UNION {{<<c, d>> : d \in 1..Len(LOCAL_GRAPH[c])} : c \in Clients}
GraphAt(x) ==
    IF x = <<0, 0>> THEN top_level_graph ELSE LOCAL_GRAPH[x[1]][x[2]]

C13_NodeIdsAreUnique ==
    /\ \A x, y \in PushCalls : x # y => ReturnedBy(x) # ReturnedBy(y)
    /\ \A x \in LiveGraphs :
          \A i, j \in 1..Len(GraphAt(x).starts) :
              i # j => GraphAt(x).starts[i][1] # GraphAt(x).starts[j][1]
    /\ \A x, y \in LiveGraphs :
          x # y => GraphAt(x).nodes \cap GraphAt(y).nodes = {}
    /\ \A j \in 1..Len(applied) :
          applied[j].type = "Push" =>
              \/ /\ applied[j].outcome = "ok"
                 /\ applied[j].node \in top_level_graph.nodes
              \/ /\ applied[j].outcome = "error"
                 /\ ErrorsFor(applied[j].from, applied[j].n) # {}
                 /\ \A x \in LiveGraphs : applied[j].node \notin GraphAt(x).nodes

\* Two threads have pushed; one node is in a local graph, one Push was
\* applied, and one Push to a graph the Controller does not hold was refused.
C13_Witness ==
    /\ \E x, y \in PushCalls : x[1] # y[1]
    /\ \E c \in Clients : LOCAL_GRAPH[c] # <<>> /\ Last(LOCAL_GRAPH[c]).nodes # {}
    /\ \E j, k \in 1..Len(applied) :
          /\ applied[j].type = "Push" /\ applied[j].outcome = "ok"
          /\ applied[k].type = "Push" /\ applied[k].outcome = "error"

\* history: this step is a call of `name` by thread c
JustCalled(c, name) ==
    /\ Len(calls'[c]) = Len(calls[c]) + 1
    /\ calls'[c][Len(calls[c]) + 1][1] = name

\* history: the argument of the call made by this step
Argument(c) == calls'[c][Len(calls[c]) + 1][2]

\* this step sent exactly one command, of the given kind
SentOne(c, type) ==
    /\ Len(sent') = Len(sent) + 1
    /\ SubSeq(sent', 1, Len(sent)) = sent
    /\ channel' = Append(channel, sent'[Len(sent')])
    /\ sent'[Len(sent')].type = type
    /\ sent'[Len(sent')].from = c

\* this step sent nothing
SentNothing == sent' = sent /\ channel' = channel

\* this step handed `list`, for `time`, to the top local graph of thread c
AppliedToTop(c, list, time) ==
    /\ Len(LOCAL_GRAPH'[c]) = Len(LOCAL_GRAPH[c])
    /\ Front(LOCAL_GRAPH'[c]) = Front(LOCAL_GRAPH[c])
    /\ Last(LOCAL_GRAPH'[c]) =
           GraphScheduleChanges(Last(LOCAL_GRAPH[c]), list, time).graph

ChangesRouted(c, list, time, type) ==
    IF bundle_changes[c]
    THEN /\ changes_bundle'[c] = changes_bundle[c] \o list
         /\ SentNothing
         /\ LOCAL_GRAPH' = LOCAL_GRAPH
    ELSE IF LOCAL_GRAPH[c] # <<>>
    THEN /\ AppliedToTop(c, list, time)
         /\ SentNothing
         /\ changes_bundle' = changes_bundle
    ELSE /\ SentOne(c, type)
         /\ sent'[Len(sent')].changes = list
         /\ sent'[Len(sent')].start_time = time
         /\ LOCAL_GRAPH' = LOCAL_GRAPH
         /\ changes_bundle' = changes_bundle

\* C14: schedule_change and schedule_changes only append to changes_bundle
\* while a bundle is open (nothing is sent, no local graph is touched);
\* else, with a local graph on the thread's stack, the change is handed to
\* the top local graph and nothing is sent; else exactly one
\* Command::ScheduleChange / Command::ScheduleChanges is sent.
C14_ChangesAreRouted ==
    [][\A c \in Clients :
          /\ JustCalled(c, "schedule_change") =>
                ChangesRouted(c, <<[node |-> Argument(c).node,
                                    value |-> Argument(c).value]>>,
                              Argument(c).time, "ScheduleChange")
          /\ JustCalled(c, "schedule_changes") =>
                ChangesRouted(c, Argument(c).changes, Argument(c).time,
                              "ScheduleChanges")]_vars

\* A change was sent with no local graph and no bundle; later, with a local
\* graph active and a bundle open, a change went to changes_bundle alone.
C14_Witness ==
    /\ \E i \in CallsOf(1, "schedule_changes") \cup CallsOf(1, "schedule_change") :
          /\ i = Len(calls[1])
          /\ CallsOf(1, "init_local_graph") # {}
          /\ CallsOf(1, "start_scheduling_bundle") # {}
    /\ bundle_changes[1]
    /\ LOCAL_GRAPH[1] # <<>>
    /\ changes_bundle[1] # <<>>
    /\ Last(LOCAL_GRAPH[1]).scheduled = <<>>
    /\ Len(sent) = 1
    /\ sent[1].type \in {"ScheduleChange", "ScheduleChanges"}

\* A change scheduled with a local graph active and no bundle open was kept
\* by that graph's scheduler and not sent.
C14_WitnessLocal ==
    /\ LOCAL_GRAPH[1] # <<>>
    /\ Last(LOCAL_GRAPH[1]).scheduled # <<>>
    /\ sent = <<>>

\* C15: start_scheduling_bundle leaves changes_bundle as it is, changes that
\* are in it stay there in order until the next upload_scheduling_bundle,
\* and that upload hands the whole of changes_bundle, in order, to
\* schedule_changes (sent as one Command::ScheduleChanges, or given to the
\* top local graph).
C15_StartKeepsTheBundle ==
    [][\A c \in Clients :
          /\ JustCalled(c, "start_scheduling_bundle") =>
                changes_bundle'[c] = changes_bundle[c]
          /\ ~JustCalled(c, "upload_scheduling_bundle") =>
                /\ Len(changes_bundle'[c]) >= Len(changes_bundle[c])
                /\ SubSeq(changes_bundle'[c], 1, Len(changes_bundle[c])) =
                       changes_bundle[c]
          /\ JustCalled(c, "upload_scheduling_bundle") =>
                IF LOCAL_GRAPH[c] # <<>>
                THEN /\ AppliedToTop(c, changes_bundle[c],
                                     changes_bundle_time[c])
                     /\ SentNothing
                ELSE /\ SentOne(c, "ScheduleChanges")
                     /\ sent'[Len(sent')].changes = changes_bundle[c]]_vars

\* start, a change, start again, upload: the change made before the second
\* start is in the one Command::ScheduleChanges sent.
C15_Witness ==
    /\ Len(calls[1]) = 4
    /\ calls[1][1][1] = "start_scheduling_bundle"
    /\ calls[1][2][1] \in {"schedule_change", "schedule_changes"}
    /\ calls[1][3][1] = "start_scheduling_bundle"
    /\ calls[1][4][1] = "upload_scheduling_bundle"
    /\ Len(sent) = 1
    /\ sent[1].type = "ScheduleChanges"
    /\ sent[1].changes # <<>>
    /\ changes_bundle[1] = <<>>

\* this step put `node` into the top local graph of thread c and into no
\* other graph of the stack
PushedToTop(c, node) ==
    /\ Len(LOCAL_GRAPH'[c]) = Len(LOCAL_GRAPH[c])
    /\ Front(LOCAL_GRAPH'[c]) = Front(LOCAL_GRAPH[c])
    /\ Last(LOCAL_GRAPH'[c]).id = Last(LOCAL_GRAPH[c]).id
    /\ Last(LOCAL_GRAPH'[c]).nodes = Last(LOCAL_GRAPH[c]).nodes \cup {node}
    /\ node \notin Last(LOCAL_GRAPH[c]).nodes

\* this step returned `node`, a NodeId no earlier call returned
Returned(node) ==
    /\ node \notin {id.id : id \in returned_ids}
    /\ node \in {id.id : id \in returned_ids'}

\* this step sent exactly one Command::Push of `node` to `graph_id`
SentPush(c, node, graph_id) ==
    /\ SentOne(c, "Push")
    /\ sent'[Len(sent')].node = node
    /\ sent'[Len(sent')].graph = graph_id
    /\ LOCAL_GRAPH' = LOCAL_GRAPH

\* C16: a push without target goes into the top graph of the thread's stack
\* when there is one, a push_to_graph(g) goes into it when its id is g, and
\* then no Command::Push is sent; in every other case exactly one
\* Command::Push is sent, addressed to the target graph (the selected graph
\* when no target is given). Every one of these calls returns a NodeId in
\* the same step.
C16_PushIsRouted ==
    [][\A c \in Clients :
          /\ JustCalled(c, "push") =>
                /\ Returned(Argument(c))
                /\ IF LOCAL_GRAPH[c] # <<>>
                   THEN PushedToTop(c, Argument(c)) /\ SentNothing
                   ELSE SentPush(c, Argument(c),
                                 selected_graph_remote_graph[c])
          /\ JustCalled(c, "push_to_graph") =>
                /\ Returned(Argument(c).node)
                /\ IF LOCAL_GRAPH[c] # <<>> /\
                      Last(LOCAL_GRAPH[c]).id = Argument(c).graph
                   THEN PushedToTop(c, Argument(c).node) /\ SentNothing
                   ELSE SentPush(c, Argument(c).node, Argument(c).graph)]_vars

\* With a local graph on the stack: a push and a matching push_to_graph went
\* into it, and a push_to_graph to another graph was sent to that graph.
C16_Witness ==
    /\ LOCAL_GRAPH[1] # <<>>
    /\ \E i \in CallsOf(1, "push") :
          calls[1][i][2] \in Last(LOCAL_GRAPH[1]).nodes
    /\ \E i \in CallsOf(1, "push_to_graph") :
          /\ calls[1][i][2].graph = Last(LOCAL_GRAPH[1]).id
          /\ calls[1][i][2].node \in Last(LOCAL_GRAPH[1]).nodes
    /\ \E i \in CallsOf(1, "push_to_graph") :
          /\ calls[1][i][2].graph # Last(LOCAL_GRAPH[1]).id
          /\ Len(sent) = 1
          /\ sent[1].type = "Push"
          /\ sent[1].node = calls[1][i][2].node
          /\ sent[1].graph = calls[1][i][2].graph

\* A push without target, made with no local graph after to_graph(g), was
\* sent to g.
C16_WitnessSelected ==
    /\ LOCAL_GRAPH[1] = <<>>
    /\ selected_graph_remote_graph[1] # TopLevelGraphId
    /\ calls[1] # <<>>
    /\ Last(calls[1])[1] = "push"
    /\ Last(sent).type = "Push"
    /\ Last(sent).node = Last(calls[1])[2]
    /\ Last(sent).graph = selected_graph_remote_graph[1]

\* the start time this step gave to `node`: the one of the Command::Push it
\* sent, or the one the top local graph took it with
StartTimeGiven(c, node) ==
    IF Len(sent') > Len(sent)
    THEN sent'[Len(sent')].start_time
    ELSE LET starts == Last(LOCAL_GRAPH'[c]).starts
         IN  starts[CHOOSE k \in 1..Len(starts) : starts[k][1] = node][2]

\* C17: every push made while a bundle with time T is open is given start
\* time T, whether it is sent as Command::Push, pushed into the local graph
\* without a target, or pushed into it through push_to_graph with a
\* matching target.
C17_PushInBundleStartsAtBundleTime ==
    [][\A c \in Clients :
          /\ (bundle_changes[c] /\ JustCalled(c, "push")) =>
                StartTimeGiven(c, Argument(c)) = changes_bundle_time[c]
          /\ (bundle_changes[c] /\ JustCalled(c, "push_to_graph")) =>
                StartTimeGiven(c, Argument(c).node) =
                    changes_bundle_time[c]]_vars

\* the top local graph of thread c makes `connection`
ResolvesInside(c, connection) ==
    /\ LOCAL_GRAPH[c] # <<>>
    /\ connection.node \in Last(LOCAL_GRAPH[c]).nodes
    /\ connection.valid

\* the top local graph of thread c may answer GraphNotFound to `connection`
MayBeNotFound(c, connection) ==
    /\ connection.node \notin Last(LOCAL_GRAPH[c]).nodes
    /\ connection.graph \notin Last(LOCAL_GRAPH[c]).graphs

\* this step made `connection` in the top local graph of thread c
ConnectedInTop(c, connection) ==
    /\ Len(LOCAL_GRAPH'[c]) = Len(LOCAL_GRAPH[c])
    /\ Front(LOCAL_GRAPH'[c]) = Front(LOCAL_GRAPH[c])
    /\ Last(LOCAL_GRAPH'[c]) =
           [Last(LOCAL_GRAPH[c]) EXCEPT !.edges = @ \cup {connection.node}]

\* this step sent exactly one command of the kind for `connection`
SentFor(c, type, connection) ==
    /\ SentOne(c, type)
    /\ sent'[Len(sent')].node = connection.node
    /\ sent'[Len(sent')].graph = connection.graph
    /\ sent'[Len(sent')].valid = connection.valid
    /\ LOCAL_GRAPH' = LOCAL_GRAPH

\* C18, as stated: a connect is applied to the top local graph, and nothing
\* is sent, exactly when a local graph is active and the edge resolves
\* inside it; in every other case exactly one Command::Connect is sent.
C18_ConnectIsAppliedOrSent ==
    [][\A c \in Clients : JustCalled(c, "connect") =>
          IF ResolvesInside(c, Argument(c))
          THEN ConnectedInTop(c, Argument(c)) /\ SentNothing
          ELSE SentFor(c, "Connect", Argument(c))]_vars

\* C18: with no local graph a connect sends exactly one Command::Connect.
\* With a local graph active it is applied to the top local graph, and
\* nothing is sent, exactly when the edge resolves inside it; when that
\* graph answers GraphNotFound exactly one Command::Connect is sent; on any
\* other error of that graph the connect is neither applied nor sent. It is
\* never both applied and sent.
C18_ConnectIsAppliedSentOrDropped ==
    [][\A c \in Clients : JustCalled(c, "connect") =>
          IF LOCAL_GRAPH[c] = <<>>
          THEN SentFor(c, "Connect", Argument(c))
          ELSE IF ResolvesInside(c, Argument(c))
          THEN ConnectedInTop(c, Argument(c)) /\ SentNothing
          ELSE IF MayBeNotFound(c, Argument(c))
          THEN \/ SentFor(c, "Connect", Argument(c))
               \/ SentNothing /\ LOCAL_GRAPH' = LOCAL_GRAPH
          ELSE SentNothing /\ LOCAL_GRAPH' = LOCAL_GRAPH]_vars

\* With a local graph active, an ill-formed connection from one of its nodes
\* was neither made nor sent, and a connection from a node of no graph the
\* local graph holds was sent.
C18_Witness ==
    /\ LOCAL_GRAPH[1] # <<>>
    /\ Last(LOCAL_GRAPH[1]).edges = {}
    /\ \E i \in CallsOf(1, "connect") :
          /\ calls[1][i][2].node \in Last(LOCAL_GRAPH[1]).nodes
          /\ ~calls[1][i][2].valid
    /\ \E i \in CallsOf(1, "connect") :
          /\ calls[1][i][2].node \notin Last(LOCAL_GRAPH[1]).nodes
          /\ Len(sent) = 1
          /\ sent[1].type = "Connect"
          /\ sent[1].node = calls[1][i][2].node
    /\ Cardinality(CallsOf(1, "connect")) = 2

\* C19: when a local graph is active and the edge of a disconnect resolves
\* inside it, the disconnect is applied to that local graph and no
\* Command::Disconnect is sent; otherwise exactly one is sent.
C19_DisconnectIsAppliedOrSent ==
    [][\A c \in Clients : JustCalled(c, "disconnect") =>
          IF ResolvesInside(c, Argument(c))
          THEN /\ SentNothing
               /\ Last(LOCAL_GRAPH'[c]) =
                      GraphDisconnect(Last(LOCAL_GRAPH[c]), Argument(c),
                                      "GraphNotFound").graph
          ELSE SentFor(c, "Disconnect", Argument(c))]_vars

\* the command each free call sends
FreeCommand ==
    [free_node |-> "FreeNode",
     free_node_mend_connections |-> "FreeNodeMendConnections",
     free_disconnected_nodes |-> "FreeDisconnectedNodes"]

\* C20: free_node, free_node_mend_connections and free_disconnected_nodes
\* each send exactly one command of their kind, with or without a local
\* graph and with or without an open bundle, and change neither the
\* local-graph stack nor changes_bundle.
C20_FreeIsAlwaysSent ==
    [][\A c \in Clients : \A name \in DOMAIN FreeCommand :
          JustCalled(c, name) =>
             /\ SentOne(c, FreeCommand[name])
             /\ sent'[Len(sent')].node = Argument(c)
             /\ LOCAL_GRAPH' = LOCAL_GRAPH
             /\ changes_bundle' = changes_bundle
             /\ bundle_changes' = bundle_changes]_vars

\* With a local graph active and a bundle open, two free calls of different
\* kinds each sent their command.
C20_Witness ==
    /\ LOCAL_GRAPH[1] # <<>>
    /\ bundle_changes[1]
    /\ Len(calls[1]) = 4
    /\ calls[1][3][1] \in DOMAIN FreeCommand
    /\ calls[1][4][1] \in DOMAIN FreeCommand
    /\ calls[1][3][1] # calls[1][4][1]
    /\ Len(sent) = 2
    /\ sent[1].type = FreeCommand[calls[1][3][1]]
    /\ sent[2].type = FreeCommand[calls[1][4][1]]

\* this step popped the top graph of thread c's stack and pushed it, as one
\* new node with what it holds, into the graph below it
PoppedIntoNewTop(c) ==
    LET g == Last(LOCAL_GRAPH[c])
        below == Last(Front(LOCAL_GRAPH[c]))
        top == Last(LOCAL_GRAPH'[c])
    IN  /\ Len(LOCAL_GRAPH'[c]) = Len(LOCAL_GRAPH[c]) - 1
        /\ Front(LOCAL_GRAPH'[c]) = Front(Front(LOCAL_GRAPH[c]))
        /\ top.id = below.id
        /\ top.graphs = below.graphs \cup g.graphs
        /\ g.nodes \subseteq top.nodes
        /\ below.nodes \subseteq top.nodes
        /\ Cardinality(top.nodes \ (below.nodes \cup g.nodes)) = 1
        /\ Len(top.starts) = Len(below.starts) + 1

\* history: the calls of thread c are k init_local_graph calls followed by k
\* upload_local_graph calls
InitsThenUploads(c, k) ==
    /\ Len(calls[c]) = 2 * k
    /\ \A i \in 1..k : calls[c][i][1] = "init_local_graph"
    /\ \A i \in (k + 1)..(2 * k) : calls[c][i][1] = "upload_local_graph"

\* C21: upload_local_graph on a non-empty stack removes exactly the top
\* graph and pushes it as one node into the previous default: into the new
\* top of the stack when one remains (nothing is sent), otherwise through
\* exactly one Command::Push addressed to the selected graph. After k
\* init_local_graph calls followed by k upload_local_graph calls the stack
\* is empty again and exactly one Command::Push has been sent.
C21_UploadGoesToThePreviousDefault ==
    /\ [][\A c \in Clients :
             (JustCalled(c, "upload_local_graph") /\ LOCAL_GRAPH[c] # <<>>) =>
                IF Len(LOCAL_GRAPH[c]) > 1
                THEN PoppedIntoNewTop(c) /\ SentNothing
                ELSE /\ LOCAL_GRAPH'[c] = <<>>
                     /\ SentOne(c, "Push")
                     /\ sent'[Len(sent')].graph =
                            selected_graph_remote_graph[c]
                     /\ sent'[Len(sent')].sub =
                            GraphPayload(Last(LOCAL_GRAPH[c]))]_vars
    /\ [](\A c \in Clients : \A k \in 1..MaxNesting :
             InitsThenUploads(c, k) =>
                /\ LOCAL_GRAPH[c] = <<>>
                /\ Len(SentBy(c)) = 1
                /\ SentBy(c)[1].type = "Push"
                /\ Cardinality(SentBy(c)[1].sub.graphs) = k)

\* Two nested local graphs were uploaded: the inner went into the outer,
\* the outer was sent as one Command::Push holding both.
C21_Witness ==
    /\ InitsThenUploads(1, 2)
    /\ LOCAL_GRAPH[1] = <<>>
    /\ Len(sent) = 1
    /\ sent[1].type = "Push"
    /\ Cardinality(sent[1].sub.graphs) = 2
    /\ Cardinality(sent[1].sub.nodes) = 1

\* this step is the return of receive_and_apply_commands
ReceiveReturns == ctl_pc = "receive" /\ ctl_pc' = "maintenance"

\* C22: run(max) returns true whenever the channel is empty when it stops
\* receiving, also when the channel held exactly max commands, and returns
\* false only when at least one command was left unreceived.
C22_RunTellsWhetherTheChannelDrained ==
    [][ReceiveReturns =>
          (all_commands_received' <=> channel' = <<>>)]_vars

\* C23: one call of run(max) receives and applies at most max commands
\* before it runs maintenance, for every max >= 0.
C23_AtMostMaxCommandsPerRun ==
    [][(ctl_pc = "receive" /\ Len(applied') > Len(applied)) =>
          recv_i + 1 <= max_commands_before_update]_vars

\* history: the invocations of user_fn made in the current run pass
InvokedThisPass == (last_pass.fired + 1)..Len(fired)

\* history: the commands (by their place in `sent`) invocation i sent
EmittedBy(i) ==
    fired[i].first_sent..(fired[i].first_sent + fired[i].emitted - 1)

\* history: the place command j had in the channel when invocation i sent
\* it (1: the next to be received)
PlaceInChannel(i, j) == j - fired[i].received

\* the commands one receive_and_apply_commands(max) can receive
ReceivedPerRun ==
    IF max_commands_before_update = 0 THEN 1 ELSE max_commands_before_update

EarlierInvocations(j) == {i \in 1..(j - 1) : fired[i].id = fired[j].id}

\* history: the sum of the deltas the invocations in S returned
RECURSIVE SumOfDeltas(_)
SumOfDeltas(S) ==
    IF S = {} THEN 0
    ELSE LET i == CHOOSE x \in S : TRUE
         IN  fired[i].result.beats + SumOfDeltas(S \ {i})

\* history: the start timestamp its Command::ScheduleBeatCallback resolved
\* to when it was applied (the j-th command sent is the j-th received)
ResolvedStart(id) ==
    LET j == CHOOSE x \in 1..Len(applied) :
                 sent[x].type = "ScheduleBeatCallback" /\ sent[x].cb = id
    IN  start_timestamp(applied[j].start_beat, applied[j].current_beats.beats)

\* C25: the timestamp given to user_fn on its n-th invocation is the
\* resolved start timestamp plus the deltas its n-1 earlier invocations
\* returned, whatever the musical time of the pass is; once user_fn has
\* returned None the callback is not invoked again and is no longer in
\* beat_callbacks.
C25_TimestampIsStartPlusDeltas ==
    \A j \in 1..Len(fired) :
        /\ fired[j].timestamp =
               ResolvedStart(fired[j].id) + SumOfDeltas(EarlierInvocations(j))
        /\ \A i \in EarlierInvocations(j) : fired[i].result.some
        /\ ~fired[j].result.some =>
              \A x \in 1..Len(beat_callbacks) :
                  beat_callbacks[x].id # fired[j].id

\* A callback was invoked a second time, with its start plus the delta it
\* had returned, in a pass whose musical time is another value; and a
\* callback that returned None is gone.
C25_Witness ==
    /\ \E j \in InvokedThisPass :
          /\ EarlierInvocations(j) # {}
          /\ fired[j].timestamp = ResolvedStart(fired[j].id) + MaxDelta
          /\ last_pass.time.beats # fired[j].timestamp
          /\ ~fired[j].result.some
    /\ beat_callbacks = <<>>

\* history: this step applied one command of this type
JustApplied(type) ==
    /\ Len(applied') = Len(applied) + 1
    /\ Last(applied').type = type

\* history: the records of applied' this step added for the command that
\* entry k of command_queue holds
AppliedAgain(k) ==
    {j \in (Len(applied) + 1)..Len(applied') :
        /\ applied'[j].from = command_queue[k][2].from
        /\ applied'[j].n = command_queue[k][2].n}

\* C26: when a Connect is applied, every Connect that command_queue holds
\* from before is attempted again through apply_command.
C26_DeferredConnectIsRetried ==
    [][JustApplied("Connect") =>
          \A k \in 1..Len(command_queue) :
              command_queue[k][2].type = "Connect" => AppliedAgain(k) # {}]_vars

\* C27: command_queue is populated and never drained: a step leaves every
\* entry where it is, so the length never decreases, and passes the
\* command of no entry to apply_command again; no command is ever applied
\* twice.
C27_QueueIsNeverDrained ==
    /\ [][/\ Len(command_queue') >= Len(command_queue)
          /\ SubSeq(command_queue', 1, Len(command_queue)) = command_queue
          /\ \A k \in 1..Len(command_queue) : AppliedAgain(k) = {}]_vars
    /\ [](\A i, j \in 1..Len(applied) :
             (applied[i].from = applied[j].from /\ applied[i].n = applied[j].n)
                 => i = j)

\* A command is in command_queue, a later command of its type was applied
\* without a problem, and the run pass that applied it is over.
C27_Witness ==
    /\ ctl_pc = "run"
    /\ \E k \in 1..Len(command_queue) :
          \E j \in (command_queue[k][1] + 2)..Len(applied) :
              /\ applied[j].type = command_queue[k][2].type
              /\ applied[j].outcome = "ok"

\* history: the places of command_queue that hold the command n of c
QueuedFor(c, n) ==
    {k \in 1..Len(command_queue) :
        command_queue[k][2].from = c /\ command_queue[k][2].n = n}

\* history: the times the command n of c went through apply_command
AppliedFor(c, n) ==
    {j \in 1..Len(applied) : applied[j].from = c /\ applied[j].n = n}

\* C28: a Push the Graph refuses is reported to the error handler exactly
\* once, is not put onto command_queue and is not applied again; a Push is
\* never deferred.
C28_RefusedPushIsReportedOnce ==
    \A j \in 1..Len(applied) :
        applied[j].type = "Push" =>
            /\ applied[j].outcome \in {"ok", "error"}
            /\ applied[j].outcome = "error" =>
                  /\ Cardinality(ErrorsFor(applied[j].from, applied[j].n)) = 1
                  /\ QueuedFor(applied[j].from, applied[j].n) = {}
                  /\ AppliedFor(applied[j].from, applied[j].n) = {j}

\* A Push to a graph the top-level Graph does not hold was refused and
\* reported, a Push sent after it was applied, and the pass is over.
C28_Witness ==
    /\ ctl_pc = "run"
    /\ \E j \in 1..Len(applied) :
          /\ applied[j].type = "Push" /\ applied[j].outcome = "error"
          /\ sent[j].graph \notin top_level_graph.graphs
          /\ ErrorsFor(applied[j].from, applied[j].n) # {}
          /\ \E k \in (j + 1)..Len(applied) :
                applied[k].type = "Push" /\ applied[k].outcome = "ok"

\* What the Graph returns for the connection of this command.
GraphAnswer(command, answer) ==
    LET connection == [node |-> command.node, graph |-> command.graph,
                       valid |-> command.valid]
    IN  IF command.type = "Connect"
        THEN GraphConnect(top_level_graph, connection, answer).err
        ELSE GraphDisconnect(top_level_graph, connection, answer).err

\* C29: applying a Connect or a Disconnect. When the Graph returns
\* SourceNodeNotPushed or SinkNodeNotPushed the same command is appended to
\* command_queue and the error handler is not called; for any other error
\* the error handler is called once with it and command_queue stays; on
\* success both stay.
C29_NotPushedIsDeferredOtherErrorsReported ==
    [][(JustApplied("Connect") \/ JustApplied("Disconnect")) =>
          \E answer \in MissingGraphAnswers :
              LET command == Head(channel)
                  e == GraphAnswer(command, answer)
              IN  /\ e \in {"SourceNodeNotPushed", "SinkNodeNotPushed"} =>
                        /\ Len(command_queue') = Len(command_queue) + 1
                        /\ SubSeq(command_queue', 1, Len(command_queue))
                               = command_queue
                        /\ Last(command_queue')[2] = command
                        /\ error_log' = error_log
                  /\ e = "none" =>
                        /\ command_queue' = command_queue
                        /\ error_log' = error_log
                  /\ e \notin {"SourceNodeNotPushed", "SinkNodeNotPushed",
                               "none"} =>
                        /\ command_queue' = command_queue
                        /\ error_log' =
                               Append(error_log,
                                      [err |-> e, from |-> command.from,
                                       n |-> command.n])]_vars

\* A Disconnect of a node not pushed is in command_queue as it was sent and
\* was not reported; a Connect the Graph refused for another reason was
\* reported once and is not in command_queue.
C29_Witness ==
    \E i, j \in 1..Len(applied) :
        /\ applied[i].type = "Disconnect" /\ applied[i].outcome = "queued"
        /\ \E k \in QueuedFor(applied[i].from, applied[i].n) :
              command_queue[k][2] = sent[i]
        /\ ErrorsFor(applied[i].from, applied[i].n) = {}
        /\ applied[j].type = "Connect" /\ applied[j].outcome = "error"
        /\ Cardinality(ErrorsFor(applied[j].from, applied[j].n)) = 1
        /\ QueuedFor(applied[j].from, applied[j].n) = {}

\* C30: when a FreeNode or a FreeNodeMendConnections is deferred, what is
\* appended to command_queue is the command that was received, of the same
\* kind and for the same node, and no error is reported.
C30_DeferredFreeIsTheSameCommand ==
    [][((JustApplied("FreeNode") \/ JustApplied("FreeNodeMendConnections"))
          /\ Last(applied').outcome = "queued") =>
             /\ Len(command_queue') = Len(command_queue) + 1
             /\ Last(command_queue')[2].type = Head(channel).type
             /\ Last(command_queue')[2].node = Head(channel).node
             /\ error_log' = error_log]_vars

\* history: this step is a turn of the loop of run_callbacks on the
\* callback at cb_i (the due test, with the load of the free flag)
ChecksCallback ==
    /\ ctl_pc = "callbacks"
    /\ (ctl_pc' # ctl_pc \/ cb_i' # cb_i)

\* history: this step calls user_fn of the callback at cb_i
InvokesCallback ==
    /\ Len(fired') = Len(fired) + 1
    /\ Last(fired').id = beat_callbacks[cb_i].id

\* C31: a turn of run_callbacks at musical time c goes on to invoke the
\* callback exactly when its free flag is unset and its next_timestamp is
\* less than c plus the look-ahead; a callback at or beyond c plus the
\* look-ahead is neither invoked nor removed; a pass that reads no musical
\* time invokes and removes nothing.
C31_InvokedWhenWithinTheLookAhead ==
    /\ [][ChecksCallback =>
            LET c == beat_callbacks[cb_i]
                near == c.next_timestamp < current_time_beats.beats + LookAhead
            IN  /\ (ctl_pc' = "invoke") <=> (near /\ ~free_flag[c.id])
                /\ ~near => /\ beat_callbacks' = beat_callbacks
                            /\ fired' = fired]_vars
    /\ [][ctl_pc = "invoke" /\ ctl_pc' # ctl_pc => InvokesCallback]_vars
    /\ [][fired' # fired => ctl_pc = "invoke"]_vars
    /\ [][(ctl_pc = "run" /\ ctl_pc' # ctl_pc /\ ~musical_time.some) =>
            /\ ctl_pc' = "receive"
            /\ beat_callbacks' = beat_callbacks
            /\ fired' = fired]_vars

\* A pass at a musical time is over: it invoked a callback that was within
\* the look-ahead and left one beyond it in the list, not invoked.
C31_Witness ==
    /\ last_pass.done /\ last_pass.time.some
    /\ \E x, y \in 1..Len(last_pass.before) :
          LET near == last_pass.before[x]
              far == last_pass.before[y]
          IN  /\ near.next_timestamp < last_pass.time.beats + LookAhead
              /\ \E i \in InvokedThisPass : fired[i].id = near.id
              /\ far.next_timestamp >= last_pass.time.beats + LookAhead
              /\ \E z \in 1..Len(last_pass.after) : last_pass.after[z] = far
              /\ \A i \in InvokedThisPass : fired[i].id # far.id

\* history: the callbacks invoked in the pass, by invocation
InvokedIds == {fired[i].id : i \in InvokedThisPass}

\* C32: in one run_callbacks pass the loop starts at the last callback of
\* the list and each turn examines the callback one place below the one
\* before, down to the first; the callbacks not yet examined are as they
\* were at the start of the pass, whatever was deleted above them; and no
\* callback is invoked twice in a pass, whatever delta it returned and
\* however far behind it is.
C32_EachCallbackIsExaminedOnce ==
    /\ [][(ctl_pc = "run" /\ ctl_pc' = "callbacks") =>
              cb_i' = Len(beat_callbacks)]_vars
    /\ [][(ctl_pc \in {"callbacks", "invoke"} /\ cb_i' # cb_i) =>
              /\ cb_i' = cb_i - 1
              /\ (ctl_pc' = "receive") <=> (cb_i' = 0)]_vars
    /\ [](ctl_pc \in {"callbacks", "invoke"} =>
              /\ cb_i \in 1..Len(beat_callbacks)
              /\ SubSeq(beat_callbacks, 1, cb_i)
                     = SubSeq(last_pass.before, 1, cb_i))
    /\ [](Cardinality(InvokedIds) = Cardinality(InvokedThisPass))

\* A pass over two callbacks is over: the upper one was deleted, the lower
\* one was examined all the same and invoked once, although it returned a
\* delta of zero and was behind the musical time.
C32_Witness ==
    /\ last_pass.done /\ last_pass.time.some
    /\ Len(last_pass.before) = 2 /\ Len(last_pass.after) = 1
    /\ last_pass.after[1].id = last_pass.before[1].id
    /\ \E i \in InvokedThisPass :
          /\ fired[i].id = last_pass.before[1].id
          /\ fired[i].result = Some(0)
          /\ fired[i].timestamp < last_pass.time.beats

\* C33: every invocation of a beat callback is handed a facade in the
\* state get_knyst_commands makes: the top-level graph selected, no bundle
\* open, an empty changes_bundle and the time Immediately.
C33_EveryInvocationGetsAFreshHandle ==
    \A i \in 1..Len(fired) :
        fired[i].handle =
            [selected_graph_remote_graph |-> TopLevelGraphId,
             bundle_changes |-> FALSE,
             changes_bundle |-> <<>>,
             changes_bundle_time |-> Immediately]

PushedOntoRing == resources \o resources_sender

\* C35: the ResourcesCommands of one thread are pushed onto the ring in the
\* order the thread submitted them, none ahead of one submitted earlier,
\* also when the ring was full for some of them: the k-th push onto the
\* ring is the thread's k-th ResourcesCommand.
C35_RingKeepsSubmissionOrder ==
    \A k \in 1..Len(PushedOntoRing) :
        PushedOntoRing[k] = [from |-> 1, n |-> k]

\* C36: upload_local_graph on an empty thread-local stack returns (a NodeId
\* is made for the handle it returns), sends nothing, leaves the stack
\* empty and leaves the selected graph and the bundle state of the facade
\* as they are.
C36_UploadWithoutALocalGraphChangesNothing ==
    [][\A c \in Clients :
          (JustCalled(c, "upload_local_graph") /\ LOCAL_GRAPH[c] = <<>>) =>
             /\ SentNothing
             /\ LOCAL_GRAPH'[c] = <<>>
             /\ next_node_id' = next_node_id + 1
             /\ selected_graph_remote_graph' = selected_graph_remote_graph
             /\ bundle_changes' = bundle_changes
             /\ changes_bundle' = changes_bundle
             /\ changes_bundle_time' = changes_bundle_time]_vars

\* A thread that has made no local graph and has an open bundle holding a
\* change, for a time, called upload_local_graph, and nothing was sent.
C36_Witness ==
    /\ calls[1] # <<>>
    /\ calls[1][Len(calls[1])][1] = "upload_local_graph"
    /\ \A i \in 1..Len(calls[1]) : calls[1][i][1] # "init_local_graph"
    /\ bundle_changes[1] /\ changes_bundle[1] # <<>>
    /\ changes_bundle_time[1] # Immediately
    /\ LOCAL_GRAPH[1] = <<>>
    /\ sent = <<>>

\* C37: the search for the next multiple made for StartBeat::Multiple(m) at
\* the musical time c comes to an end with a result, for every m >= 0 and
\* every c.
C37_MultipleSearchTerminates == <>(multiple_loop.pc = "done")


\* history: the start_scheduling_bundle and upload_scheduling_bundle calls
\* thread c has made, in order
IsBundleCall(call) ==
    call[1] \in {"start_scheduling_bundle", "upload_scheduling_bundle"}

BundleCalls(c) == SelectSeq(calls[c], IsBundleCall)

\* history: the last of them was a start (an upload) of a bundle
BundleOpenedLast(c) ==
    /\ BundleCalls(c) # <<>>
    /\ Last(BundleCalls(c))[1] = "start_scheduling_bundle"

BundleUploadedLast(c) ==
    /\ BundleCalls(c) # <<>>
    /\ Last(BundleCalls(c))[1] = "upload_scheduling_bundle"

\* C38: upload_scheduling_bundle leaves the facade with bundle_changes
\* false, an empty changes_bundle and changes_bundle_time Immediately; the
\* changes it emits (sent, or handed to the top local graph) are the
\* collected ones, for the time given to the most recent
\* start_scheduling_bundle; and a Push sent after an upload, before the next
\* start_scheduling_bundle, carries start_time Immediately.
C38_UploadEndsTheBundle ==
    [][\A c \in Clients :
          /\ JustCalled(c, "upload_scheduling_bundle") =>
                /\ bundle_changes'[c] = FALSE
                /\ changes_bundle'[c] = <<>>
                /\ changes_bundle_time'[c] = Immediately
                /\ BundleOpenedLast(c) =>
                      LET time == Last(BundleCalls(c))[2]
                      IN  IF LOCAL_GRAPH[c] # <<>>
                          THEN /\ AppliedToTop(c, changes_bundle[c], time)
                               /\ SentNothing
                          ELSE /\ SentOne(c, "ScheduleChanges")
                               /\ sent'[Len(sent')].changes = changes_bundle[c]
                               /\ sent'[Len(sent')].start_time = time
          /\ (JustCalled(c, "push") /\ BundleUploadedLast(c)
                  /\ Len(sent') = Len(sent) + 1) =>
                /\ sent'[Len(sent')].type = "Push"
                /\ sent'[Len(sent')].start_time = Immediately
      ]_vars

\* A bundle opened for a time other than Immediately, with a change in it,
\* was uploaded and sent with that time, and the Push sent after it starts
\* immediately.
C38_Witness ==
    \E j, k \in 1..Len(sent) :
        /\ j < k
        /\ sent[j].type = "ScheduleChanges"
        /\ sent[j].start_time # Immediately
        /\ sent[j].changes # <<>>
        /\ sent[k].type = "Push"
        /\ sent[k].start_time = Immediately
        /\ BundleUploadedLast(sent[k].from)


\* the number, counted from 0, of sample k of block b of the IntervalTrig
SampleAt(b, k) == (b - 1) * interval_trig.block_size + (k - 1)

\* C39: an IntervalTrig whose interval is n samples (n >= 1), started with
\* its counter at zero, has put out 1 at the samples n-1, 2n-1, 3n-1, ...
\* and 0 at every other sample, block after block, and its counter holds
\* what is over after the last trigger; for every interval the counter
\* never goes below zero.
C39_TriggersEveryNthSample ==
    /\ interval_trig.counter >= 0
    /\ \A n \in 1..(MaxInterval \div one_sample) :
          interval_trig.interval = n * one_sample =>
            /\ \A b \in 1..Len(interval_trig.blocks) :
                  /\ Len(interval_trig.blocks[b]) = interval_trig.block_size
                  /\ \A k \in 1..interval_trig.block_size :
                        interval_trig.blocks[b][k] =
                            IF (SampleAt(b, k) + 1) % n = 0 THEN 1 ELSE 0
            /\ interval_trig.counter =
                   ((Len(interval_trig.blocks) * interval_trig.block_size) % n)
                       * one_sample

\* An interval of 3 samples in blocks of 4: the trigger at sample 2 is in
\* the first block and the one at sample 5 is the second sample of the
\* second block, counted on from what the first block left.
C39_Witness ==
    /\ interval_trig.interval = 3 * one_sample
    /\ interval_trig.block_size = 4
    /\ Len(interval_trig.blocks) >= 2
    /\ interval_trig.blocks[1] = <<0, 0, 1, 0>>
    /\ interval_trig.blocks[2] = <<0, 1, 0, 0>>

\* C40: of all the samples an OnceTrig has put out, the first sample of the
\* first block is 1 and every other sample is 0, and every process call
\* returned FreeSelf.
C40_OneTriggerThenSilence ==
    /\ Len(once_trig.returned) = Len(once_trig.blocks)
    /\ \A b \in 1..Len(once_trig.blocks) :
          /\ once_trig.returned[b] = "FreeSelf"
          /\ \A k \in 1..Len(once_trig.blocks[b]) :
                once_trig.blocks[b][k] = IF b = 1 /\ k = 1 THEN 1 ELSE 0

\* Three blocks were processed, the first of more than one sample.
C40_Witness ==
    /\ Len(once_trig.blocks) >= 3
    /\ Len(once_trig.blocks[1]) >= 2
    /\ once_trig.blocks[1][1] = 1
    /\ once_trig.triggered

====
